---- MODULE Spec2Model ----
(***************************************************************************)
(* Kaleidoscope front end: the recursive-descent / precedence-climbing     *)
(* parser of src/src/parser.rs, run by a GlobalParser session that owns    *)
(* the operator table across parse calls.                                  *)
(*                                                                         *)
(* The parser pulls Tokens from a Peekable<Lexer>; the model keeps the     *)
(* not yet consumed tokens of the call in `lexer`.  A Number token holds   *)
(* its f64 value in tenths (15 is 1.5), so that the truncating conversion  *)
(* `as isize` of parse_prototype is a real conversion.                     *)
(***************************************************************************)
EXTENDS Integers, Sequences, FiniteSets, TLC

(***************************************************************************)
(* Tokens (lexer::Token as used by parser.rs)                              *)
(***************************************************************************)
Kw(k)  == [t |-> k,     s |-> "", n |-> 0]
Id(x)  == [t |-> "Identifier", s |-> x, n |-> 0]
Num(v) == [t |-> "Number", s |-> "", n |-> v]
Op(c)  == [t |-> "Op",  s |-> c,  n |-> 0]
EoF    == Kw("EoF")

(***************************************************************************)
(* The lexer.  A text is a sequence of characters (strings of length one)  *)
(* over ASCII; numbers are kept in tenths, so a literal of the texts has   *)
(* at most one digit after its point.                                      *)
(***************************************************************************)
Digits == {"0", "1", "2", "3", "4", "5", "6", "7", "8", "9"}
Letters == {"a", "b", "c", "d", "e", "f", "g", "h", "i", "j", "k", "l", "m",
            "n", "o", "p", "q", "r", "s", "t", "u", "v", "w", "x", "y", "z",
            "D", "I", "X"}

\* char::is_whitespace, char::is_numeric, char::is_alphabetic,
\* char::is_alphanumeric on the characters of the texts
is_whitespace(c)   == c \in {" ", "\n", "\t"}
char_is_numeric(c) == c \in Digits
is_alphabetic(c)   == c \in Letters
is_alphanumeric(c) == c \in Letters \cup Digits

\* variant of consume_until_eol: the comment ends at the first blank
RECURSIVE consume_until_eol_blank(_)
consume_until_eol_blank(cs) ==
    IF cs = <<>> THEN <<>>
    ELSE IF Head(cs) \in {"\n", " "} THEN Tail(cs)
    ELSE consume_until_eol_blank(Tail(cs))

\* Lexer::consume_until_eol: what is left after the line
RECURSIVE consume_until_eol(_)
consume_until_eol(cs) ==
    IF cs = <<>> THEN <<>>
    ELSE IF Head(cs) = "\n" THEN Tail(cs)
    ELSE consume_until_eol(Tail(cs))

\* Lexer::consume_whitespaces: what is left after blanks and comments
RECURSIVE consume_whitespaces(_)
consume_whitespaces(cs) ==
    IF cs = <<>> THEN <<>>
    ELSE IF is_whitespace(Head(cs)) THEN consume_whitespaces(Tail(cs))
    ELSE IF Head(cs) = "#" THEN consume_whitespaces(consume_until_eol(cs))
    ELSE cs

\* Lexer::consume_alphabetic: the run of alphanumeric characters and the rest
RECURSIVE consume_alphabetic(_, _)
consume_alphabetic(cs, val) ==
    IF cs # <<>> /\ is_alphanumeric(Head(cs))
    THEN consume_alphabetic(Tail(cs), val \o Head(cs))
    ELSE [val |-> val, rest |-> cs]

\* Lexer::is_numeric
is_numeric(c) == c = "." \/ c \in Digits

\* the run of consume_numeric and the rest
RECURSIVE numeric_run(_, _)
numeric_run(cs, val) ==
    IF cs # <<>> /\ is_numeric(Head(cs))
    THEN numeric_run(Tail(cs), Append(val, Head(cs)))
    ELSE [val |-> val, rest |-> cs]

DigitValue(c) ==
    CASE c = "0" -> 0 [] c = "1" -> 1 [] c = "2" -> 2 [] c = "3" -> 3 [] c = "4" -> 4
      [] c = "5" -> 5 [] c = "6" -> 6 [] c = "7" -> 7 [] c = "8" -> 8 [] OTHER -> 9

\* the value of a run of digits
RECURSIVE Decimal(_, _)
Decimal(run, acc) ==
    IF run = <<>> THEN acc ELSE Decimal(Tail(run), acc * 10 + DigitValue(Head(run)))

\* str::parse::<f64> on a run of digits and points: None unless the run holds
\* a digit and at most one point; Some(value), in tenths
NoneF64 == -1
parse_f64(run) ==
    LET points == {i \in DOMAIN run : run[i] = "."}
    IN  IF Cardinality(points) > 1 \/ Cardinality(points) = Len(run) THEN NoneF64
        ELSE IF points = {} THEN Decimal(run, 0) * 10
        ELSE LET p == CHOOSE i \in points : TRUE
                 frac == SubSeq(run, p + 1, Len(run))
             IN  Decimal(SubSeq(run, 1, p - 1), 0) * 10
                    + (IF frac = <<>> THEN 0 ELSE DigitValue(frac[1]))

\* Lexer::consume_numeric: `val.parse().ok()` on the run
consume_numeric(cs) ==
    LET r == numeric_run(cs, <<>>) IN [val |-> parse_f64(r.val), rest |-> r.rest]

\* variant of classify: a run that goes on after `def` is Def as well
classify_prefix(val) ==
    CASE val \in {"def", "define", "defx", "def1"} -> Kw("Def")
      [] val = "extern" -> Kw("Extern")
      [] val = "if" -> Kw("If")
      [] val = "then" -> Kw("Then")
      [] val = "else" -> Kw("Else")
      [] val = "for" -> Kw("For")
      [] val = "in" -> Kw("In")
      [] OTHER -> Id(val)

\* the match arms of Lexer::next on the text of an alphanumeric run
classify(val) ==
    CASE val = "def" -> Kw("Def")
      [] val = "extern" -> Kw("Extern")
      [] val = "if" -> Kw("If")
      [] val = "then" -> Kw("Then")
      [] val = "else" -> Kw("Else")
      [] val = "for" -> Kw("For")
      [] val = "in" -> Kw("In")
      [] OTHER -> Id(val)

\* what Lexer::next gives: Some(token), None, or no return at all (panic!)
Some(tok, cs) == [kind |-> "Some", tok |-> tok, rest |-> cs]
None          == [kind |-> "None", tok |-> EoF, rest |-> <<>>]
Panic         == [kind |-> "Panic", tok |-> EoF, rest |-> <<>>]

\* Lexer::next: the guard that sends a character to consume_numeric
starts_number(c) == char_is_numeric(c)

\* Lexer::next
next(cs) ==
    LET s == consume_whitespaces(cs) IN
    IF s = <<>> THEN None
    ELSE IF starts_number(Head(s))
    THEN LET r == consume_numeric(s) IN
         IF r.val = NoneF64 THEN Panic ELSE Some(Num(r.val), r.rest)
    ELSE IF is_alphabetic(Head(s))
    THEN LET r == consume_alphabetic(s, "") IN Some(classify(r.val), r.rest)
    ELSE Some(Op(Head(s)), Tail(s))

(***************************************************************************)
(* AST (ast.rs as used by parser.rs)                                       *)
(***************************************************************************)
ANONYM_FUNCTION == "__anon_expr"

NumberExpr(v)   == [k |-> "NumberExpr", val |-> v]
VariableExpr(x) == [k |-> "VariableExpr", name |-> x]
UnaryExpr(o, e) == [k |-> "UnaryExpr", opcode |-> o, operand |-> e]
BinaryExpr(o, l, r) == [k |-> "BinaryExpr", op |-> o, lhs |-> l, rhs |-> r]
CallExpr(f, a)  == [k |-> "CallExpr", callee |-> f, args |-> a]
IfExpr(c, a, b) == [k |-> "IfExpr", condition |-> c, then_block |-> a, else_block |-> b]
ForExpr(v, s, e, st, b) ==
    [k |-> "ForExpr", var_name |-> v, var_start |-> s, var_end |-> e, step |-> st, body |-> b]
VarExpr(vs, b)  == [k |-> "VarExpr", var_names |-> vs, body |-> b]

\* Option<Operator>: None, Some(Unary), Some(Binary { op_name, precedence })
OperatorNone   == [kind |-> "None", op_name |-> "", precedence |-> 0]
OperatorUnary  == [kind |-> "Unary", op_name |-> "", precedence |-> 0]
OperatorBinary(c, p) == [kind |-> "Binary", op_name |-> c, precedence |-> p]

PrototypeAST(nm, a, o) == [name |-> nm, args |-> a, operator |-> o]
FunctionAST(p, b)      == [proto |-> p, body |-> b]
TopFunction(f)  == [top |-> "Function", proto |-> f.proto, body |-> f.body]
TopPrototype(p) == [top |-> "Prototype", proto |-> p, body |-> [k |-> "None"]]

\* PrototypeAST::gen_unary_func_name / gen_binary_func_name: a fixed prefix
\* plus the operator character
gen_unary_func_name(c)  == "unary" \o c
gen_binary_func_name(c) == "binary" \o c

(***************************************************************************)
(* Operator table                                                          *)
(***************************************************************************)
BIN_OP_PRIORITY ==
    [c \in {"=", "<", "+", "-", "*"} |->
        CASE c = "=" -> 2 [] c = "<" -> 10 [] c = "+" -> 20 [] c = "-" -> 20 [] c = "*" -> 40]

UNREGISTERED == -1
DEFAULT_PRECEDENCE == 30
MIN_PRECEDENCE == 1
MAX_PRECEDENCE == 100

\* variant of add_token_precedence: an entry already there is kept
\* (entry().or_insert())
add_token_precedence_keep(tp, c, prec) ==
    [x \in DOMAIN tp \cup {c} |-> IF x \in DOMAIN tp THEN tp[x] ELSE prec]

\* variant of add_token_precedence: the insertion starts a new table
add_token_precedence_fresh(tp, c, prec) ==
    [x \in {c} |-> prec]

\* HashMap::insert
add_token_precedence(tp, c, prec) ==
    [x \in DOMAIN tp \cup {c} |-> IF x = c THEN prec ELSE tp[x]]

\* variant of get_token_precedence: an unregistered symbol gets the lowest
\* threshold instead of a value below it
get_token_precedence_zero(tp, c) ==
    IF c \in DOMAIN tp THEN tp[c] ELSE 0

get_token_precedence(tp, c) ==
    IF c \in DOMAIN tp THEN tp[c] ELSE UNREGISTERED

(***************************************************************************)
(* Token source                                                            *)
(***************************************************************************)
peek_token(lx) == IF lx = <<>> THEN EoF ELSE Head(lx)
\* the Peekable<Lexer> after consume_token: one token fewer, or still empty
advance(lx)    == IF lx = <<>> THEN <<>> ELSE Tail(lx)

\* Results: Ok(value) with the lexer left behind, or Err
NoAST      == [k |-> "None"]
Ok(a, lx)  == [ok |-> TRUE, ast |-> a, lexer |-> lx]
Err(lx)    == [ok |-> FALSE, ast |-> NoAST, lexer |-> lx]

\* the `?` operator: an Err is returned at once, an Ok value goes on into F
\* (r is a value before it is looked at: it is computed once)
Try(r, F(_)) == CHOOSE out \in {IF v.ok THEN F(v) ELSE v : v \in {r}} : TRUE

\* One pass of a `loop { .. }`: the function returns r from inside the pass,
\* or the pass comes to its end and the loop goes round with r
Return(r)   == [done |-> TRUE, r |-> r]
Continue(r) == [done |-> FALSE, r |-> r]
\* `?` inside a pass
TryInPass(r, F(_)) == CHOOSE out \in {IF v.ok THEN F(v) ELSE Return(v) : v \in {r}} : TRUE
\* the loop: the next pass F starts from what the pass p left
Loop(p, F(_)) == CHOOSE out \in {IF v.done THEN v.r ELSE F(v.r) : v \in {p}} : TRUE

\* consume_and_ensure_token: in `matches!(self.consume_token(), _token)` the
\* pattern `_token` is an identifier pattern, which binds any value, so the
\* ensure! never fails: one token is consumed, whatever it is, and Ok(())
\* is returned.
consume_and_ensure_token(lx, token) == Ok(NoAST, advance(lx))

\* `match self.consume_token() { Token::Identifier(name) => name, _ => bail!(..) }`
consume_identifier(lx) ==
    IF peek_token(lx).t = "Identifier" THEN Ok(peek_token(lx).s, advance(lx))
    ELSE Err(advance(lx))

(***************************************************************************)
(* Expressions                                                             *)
(***************************************************************************)
RECURSIVE parse_expression(_, _)
RECURSIVE parse_unary(_, _)
RECURSIVE parse_primary(_, _)
RECURSIVE parse_bin_op_rhs(_, _, _, _)
RECURSIVE parse_paren_expr(_, _)
RECURSIVE parse_if_expr(_, _)
RECURSIVE parse_for_expr(_, _)
RECURSIVE parse_identifier_expr(_, _)
RECURSIVE parse_call_args(_, _, _)
RECURSIVE parse_var_expr(_, _)
RECURSIVE parse_var_names(_, _, _)

parse_number_expr(lx, tp) ==
    IF peek_token(lx).t = "Number" THEN Ok(NumberExpr(peek_token(lx).n), advance(lx))
    ELSE Err(advance(lx))

parse_expression(lx, tp) ==
    Try(parse_unary(lx, tp), LAMBDA lhs :
    parse_bin_op_rhs(lhs.lexer, tp, 0, lhs.ast))

\* variant of is_prefix_opcode: `,` is taken as a prefix opcode too
is_prefix_opcode_comma(tok) == tok.t = "Op" /\ tok.s # "("

\* variant of is_prefix_opcode: `)` is kept out of the prefix opcodes as well
is_prefix_opcode_no_paren(tok) == tok.t = "Op" /\ tok.s \notin {"(", ",", ")"}

\* parse_unary: the tokens taken as a prefix opcode
is_prefix_opcode(tok) == tok.t = "Op" /\ tok.s \notin {"(", ","}

parse_unary(lx, tp) ==
    IF is_prefix_opcode(peek_token(lx))
    THEN Try(parse_unary(advance(lx), tp), LAMBDA operand :
         Ok(UnaryExpr(peek_token(lx).s, operand.ast), operand.lexer))
    ELSE parse_primary(lx, tp)

parse_primary(lx, tp) ==
    LET tok == peek_token(lx) IN
    CASE tok.t = "Identifier" -> parse_identifier_expr(lx, tp)
      [] tok.t = "Number" -> parse_number_expr(lx, tp)
      [] tok.t = "Op" /\ tok.s = "(" -> parse_paren_expr(lx, tp)
      [] tok.t = "If" -> parse_if_expr(lx, tp)
      [] tok.t = "For" -> parse_for_expr(lx, tp)
      [] tok.t = "Var" -> parse_var_expr(lx, tp)
      [] OTHER -> Err(lx)

\* variant of binds_tighter: the recursion into rhs is never taken
binds_tighter_never(tok_prec, next_prec) == FALSE

\* parse_bin_op_rhs: `if tok_prec < next_prec`, the next operator takes rhs
binds_tighter(tok_prec, next_prec) == tok_prec < next_prec

\* variant of parse_bin_op_rhs: an operator of the same precedence is taken
\* into rhs as well (`<=`, climbing from tok_prec)
parse_bin_op_rhs_right(lx, tp, expr_precedence, lhs) ==
    LET tok == peek_token(lx)
        tok_prec == get_token_precedence(tp, tok.s)
    IN
    IF tok.t # "Op" THEN Ok(lhs, lx)
    ELSE IF tok_prec < expr_precedence THEN Ok(lhs, lx)
    ELSE
    Try(parse_unary(advance(lx), tp), LAMBDA r :
    Try(IF /\ peek_token(r.lexer).t = "Op"
           /\ tok_prec <= get_token_precedence(tp, peek_token(r.lexer).s)
        THEN parse_bin_op_rhs(r.lexer, tp, tok_prec, r.ast)
        ELSE r, LAMBDA rhs :
    parse_bin_op_rhs(rhs.lexer, tp, expr_precedence, BinaryExpr(tok.s, lhs, rhs.ast))))

\* one pass of the loop of parse_bin_op_rhs
bin_op_pass(lx, tp, expr_precedence, lhs) ==
    LET tok == peek_token(lx)
        tok_prec == get_token_precedence(tp, tok.s)
    IN
    IF tok.t # "Op" THEN Return(Ok(lhs, lx))
    ELSE IF tok_prec < expr_precedence THEN Return(Ok(lhs, lx))
    ELSE
    TryInPass(parse_unary(advance(lx), tp), LAMBDA r :
    TryInPass(IF /\ peek_token(r.lexer).t = "Op"
                 /\ binds_tighter(tok_prec, get_token_precedence(tp, peek_token(r.lexer).s))
              THEN parse_bin_op_rhs(r.lexer, tp, tok_prec + 1, r.ast)
              ELSE r, LAMBDA rhs :
    Continue(Ok(BinaryExpr(tok.s, lhs, rhs.ast), rhs.lexer))))

parse_bin_op_rhs(lx, tp, expr_precedence, lhs) ==
    Loop(bin_op_pass(lx, tp, expr_precedence, lhs), LAMBDA n :
    parse_bin_op_rhs(n.lexer, tp, expr_precedence, n.ast))

\* `match self.consume_token() { Token::Op(')') => expr, _ => bail!(..) }`: the
\* result of parse_expression, Ok or Err, is returned if `)` comes next
close_paren(e) ==
    IF peek_token(e.lexer) = Op(")") THEN [e EXCEPT !.lexer = advance(e.lexer)]
    ELSE Err(advance(e.lexer))

parse_paren_expr(lx, tp) ==
    close_paren(parse_expression(advance(lx), tp))

parse_if_expr(lx, tp) ==
    Try(consume_and_ensure_token(lx, Kw("If")), LAMBDA c0 :
    Try(parse_expression(c0.lexer, tp), LAMBDA condition :
    Try(consume_and_ensure_token(condition.lexer, Kw("Then")), LAMBDA c1 :
    Try(parse_expression(c1.lexer, tp), LAMBDA then_block :
    Try(consume_and_ensure_token(then_block.lexer, Kw("Else")), LAMBDA c2 :
    Try(parse_expression(c2.lexer, tp), LAMBDA else_block :
    Ok(IfExpr(condition.ast, then_block.ast, else_block.ast), else_block.lexer)))))))

\* the optional step of parse_for_expr: Some(expr) is <<expr>>, None is <<>>
some(e) == Ok(<<e.ast>>, e.lexer)

parse_for_expr(lx, tp) ==
    Try(consume_and_ensure_token(lx, Kw("For")), LAMBDA c0 :
    Try(consume_identifier(c0.lexer), LAMBDA var_name :
    Try(consume_and_ensure_token(var_name.lexer, Op("=")), LAMBDA c1 :
    Try(parse_expression(c1.lexer, tp), LAMBDA var_start :
    Try(consume_and_ensure_token(var_start.lexer, Op(",")), LAMBDA c2 :
    Try(parse_expression(c2.lexer, tp), LAMBDA var_end :
    Try(IF peek_token(var_end.lexer) = Op(",")
        THEN Try(parse_expression(advance(var_end.lexer), tp), some)
        ELSE Ok(<<>>, var_end.lexer), LAMBDA step :
    Try(consume_and_ensure_token(step.lexer, Kw("In")), LAMBDA c3 :
    Try(parse_expression(c3.lexer, tp), LAMBDA body :
    Ok(ForExpr(var_name.ast, var_start.ast, var_end.ast, step.ast, body.ast),
       body.lexer))))))))))

\* one pass of the argument loop of parse_identifier_expr
call_args_pass(lx, tp, args) ==
    TryInPass(parse_expression(lx, tp), LAMBDA e :
    IF peek_token(e.lexer) = Op(")") THEN Return(Ok(Append(args, e.ast), e.lexer))
    ELSE IF peek_token(e.lexer) # Op(",") THEN Return(Err(e.lexer))
    ELSE Continue(Ok(Append(args, e.ast), advance(e.lexer))))

\* the argument loop of parse_identifier_expr, entered with the arguments so far
parse_call_args(lx, tp, args) ==
    Loop(call_args_pass(lx, tp, args), LAMBDA n :
    parse_call_args(n.lexer, tp, n.ast))

parse_identifier_expr(lx, tp) ==
    Try(consume_identifier(lx), LAMBDA name :
    IF peek_token(name.lexer) # Op("(") THEN Ok(VariableExpr(name.ast), name.lexer)
    ELSE
    Try(IF peek_token(advance(name.lexer)) # Op(")")
        THEN parse_call_args(advance(name.lexer), tp, <<>>)
        ELSE Ok(<<>>, advance(name.lexer)), LAMBDA args :
    Ok(CallExpr(name.ast, args.ast), advance(args.lexer))))

\* the binding loop of parse_var_expr, entered with the bindings so far
parse_var_names(lx, tp, var_names) ==
    Try(consume_identifier(lx), LAMBDA identifier :
    Try(IF peek_token(identifier.lexer) = Op("=")
        THEN Try(consume_and_ensure_token(identifier.lexer, Op("=")), LAMBDA c :
             Try(parse_expression(c.lexer, tp), some))
        ELSE Ok(<<>>, identifier.lexer), LAMBDA init_val :
    IF peek_token(init_val.lexer) # Op(",")
    THEN Ok(Append(var_names, [name |-> identifier.ast, init |-> init_val.ast]),
            init_val.lexer)
    ELSE
    Try(consume_and_ensure_token(init_val.lexer, Op(",")), LAMBDA c :
    parse_var_names(c.lexer, tp,
                    Append(var_names, [name |-> identifier.ast, init |-> init_val.ast])))))

parse_var_expr(lx, tp) ==
    Try(consume_and_ensure_token(lx, Kw("Var")), LAMBDA c0 :
    Try(parse_var_names(c0.lexer, tp, <<>>), LAMBDA var_names :
    Try(consume_and_ensure_token(var_names.lexer, Kw("In")), LAMBDA c1 :
    Try(parse_expression(c1.lexer, tp), LAMBDA body :
    Ok(VarExpr(var_names.ast, body.ast), body.lexer)))))

(***************************************************************************)
(* Prototypes                                                              *)
(***************************************************************************)
ProtoOk(p, lx) == [ok |-> TRUE, proto |-> p, lexer |-> lx]
ProtoErr(lx)   == [ok |-> FALSE, proto |-> PrototypeAST("", <<>>, OperatorNone), lexer |-> lx]

\* variant of as_isize: the f64 is rounded to the nearest integer
as_isize_round(n) == (n + 5) \div 10

\* `precedence = *prec_candidate as isize`: the f64 is truncated toward zero
\* (the literal is in tenths and is at least 1.0 here)
as_isize(n) == n \div 10

\* variant of arity_ok: more parameters than the operator takes are let through
arity_ok_at_least(operator, args) ==
    CASE operator.kind = "Binary" -> Len(args) >= 2
      [] operator.kind = "Unary" -> Len(args) >= 1
      [] OTHER -> TRUE

\* ensure!(args.len() == 2) / ensure!(args.len() == 1) / ()
arity_ok(operator, args) ==
    CASE operator.kind = "Binary" -> Len(args) = 2
      [] operator.kind = "Unary" -> Len(args) = 1
      [] OTHER -> TRUE

\* one pass of the parameter loop of parse_prototype; what goes round with
\* the loop is the parameter list, held in a prototype
prototype_args_pass(lx, name, operator, args) ==
    LET tok == peek_token(lx) IN
    CASE tok.t = "Identifier" ->
            Continue(ProtoOk(PrototypeAST(name, Append(args, tok.s), operator), advance(lx)))
      [] tok = Op(")") ->
            IF arity_ok(operator, args)
            THEN Return(ProtoOk(PrototypeAST(name, args, operator), advance(lx)))
            ELSE Return(ProtoErr(advance(lx)))
      [] OTHER -> Return(ProtoErr(advance(lx)))

\* the parameter loop of parse_prototype, entered with the parameters so far
RECURSIVE parse_prototype_args(_, _, _, _)
parse_prototype_args(lx, name, operator, args) ==
    Loop(prototype_args_pass(lx, name, operator, args), LAMBDA n :
    parse_prototype_args(n.lexer, name, operator, n.proto.args))

\* variant of precedence_in_range: every literal is let through
precedence_in_range_any(n) == TRUE

\* `if *prec_candidate < 1_f64 || *prec_candidate > 100_f64 { bail!(..) }`
precedence_in_range(n) == ~(n < MIN_PRECEDENCE * 10 \/ n > MAX_PRECEDENCE * 10)

\* the three prototype heads: Ok carries <<name, operator>>
parse_prototype_head(lx) ==
    LET tok == peek_token(lx)
        lx1 == advance(lx)
        opTok == peek_token(lx1)
        lx2 == advance(lx1)
        cand == peek_token(lx2)
    IN
    CASE tok.t = "Identifier" -> Ok(<<tok.s, OperatorNone>>, lx1)
      [] tok.t = "Unary" ->
            IF opTok.t # "Op" THEN Err(lx2)
            ELSE Ok(<<gen_unary_func_name(opTok.s), OperatorUnary>>, lx2)
      [] tok.t = "Binary" ->
            IF opTok.t # "Op" THEN Err(lx2)
            ELSE IF cand.t # "Number"
            THEN Ok(<<gen_binary_func_name(opTok.s),
                      OperatorBinary(opTok.s, DEFAULT_PRECEDENCE)>>, lx2)
            ELSE IF ~precedence_in_range(cand.n)
            THEN Err(lx2)
            ELSE Ok(<<gen_binary_func_name(opTok.s),
                      OperatorBinary(opTok.s, as_isize(cand.n))>>, advance(lx2))
      [] OTHER -> Err(lx1)

parse_prototype(lx) ==
    LET h == parse_prototype_head(lx) IN
    IF ~h.ok THEN ProtoErr(h.lexer)
    ELSE parse_prototype_args(consume_and_ensure_token(h.lexer, Op("(")).lexer,
                              h.ast[1], h.ast[2], <<>>)

parse_extern(lx) ==
    parse_prototype(consume_and_ensure_token(lx, Kw("Extern")).lexer)

\* variant of parse_top_level_expression: the wrapper takes a name an
\* identifier can spell
parse_top_level_expression_named(lx, tp) ==
    Try(parse_expression(lx, tp), LAMBDA e :
    Ok(FunctionAST(PrototypeAST("anon", <<>>, OperatorNone), e.ast), e.lexer))

parse_top_level_expression(lx, tp) ==
    Try(parse_expression(lx, tp), LAMBDA e :
    Ok(FunctionAST(PrototypeAST(ANONYM_FUNCTION, <<>>, OperatorNone), e.ast), e.lexer))

(***************************************************************************)
(* Inputs of the parse calls: token sequences, as the lexer hands them     *)
(* over.  The families are crossed over operand kinds, operators,          *)
(* precedence literals and parameter counts.                               *)
(***************************************************************************)
MaxOps == 3
MaxParams == 3

Names == <<"a", "b", "c", "d", "e", "f">>

\* operators met in expressions: the seeded ones, two unseeded ones and the
\* call/group delimiter
ExprOps == {"+", "-", "*", "<", ">", "("}

Operand(kind, i) == IF kind = "id" THEN Id(Names[i]) ELSE Num(i * 10)
OperandAST(kind, i) == IF kind = "id" THEN VariableExpr(Names[i]) ELSE NumberExpr(i * 10)

\* o1 ops[1] o2 ops[2] ... o(n+1)
Chain(kind, ops) ==
    [i \in 1..(2 * Len(ops) + 1) |->
        IF i % 2 = 1 THEN Operand(kind, (i + 1) \div 2) ELSE Op(ops[i \div 2])]

OpSeqs == UNION {[1..n -> ExprOps] : n \in 1..MaxOps}
ChainInputs == {Chain(kind, ops) : kind \in {"id", "num"}, ops \in OpSeqs}

\* precedence literals, in tenths: 0.9, 1.0, 10.5, 100.0, 100.1; <<>> is no literal
PrecLits == {<<>>, <<9>>, <<10>>, <<105>>, <<1000>>, <<1001>>}

Params(n) == [i \in 1..n |-> Id(Names[i])]
ParamList(n) == <<Op("(")>> \o Params(n) \o <<Op(")")>>
BinaryProto(c, lit, n) ==
    <<Kw("Binary"), Op(c)>> \o [i \in 1..Len(lit) |-> Num(lit[i])] \o ParamList(n)
UnaryProto(c, n) == <<Kw("Unary"), Op(c)>> \o ParamList(n)
PlainProto(n) == <<Id("foo")>> \o ParamList(n)

\* def binary<c> <lit> (a b) <body>
DefBinary(c, lit, body) == <<Kw("Def")>> \o BinaryProto(c, lit, 2) \o body
ExternBinary(c, lit) == <<Kw("Extern")>> \o BinaryProto(c, lit, 2)

\* bodies of a def binary<c>: a plain one, one that uses c itself, one that
\* does not parse
BodyPlain == <<Id("a")>>
BodyUsing(c) == <<Id("a"), Op(c), Id("b")>>
BodyBad == <<Op(")")>>

\* the operator/literal pairs that are declared
DefCombos ==
    {<<">", lit>> : lit \in PrecLits} \cup {<<"(", <<105>>>>, <<"(", <<>>>>, <<"+", <<10>>>>}

DefInputs ==
    {DefBinary(cl[1], cl[2], BodyPlain) : cl \in DefCombos}
    \cup {DefBinary(cl[1], cl[2], BodyUsing(cl[1])) : cl \in DefCombos}
    \cup {DefBinary(cl[1], cl[2], BodyBad) : cl \in DefCombos}
    \cup {ExternBinary(cl[1], cl[2]) : cl \in DefCombos}

\* def binary<c> <lit> (a b) a ; 1 <c> 2 * 3   and   ... ; 1 * 2 <c> 3
DefThenUse(c, lit, ops) ==
    DefBinary(c, lit, BodyPlain) \o <<Op(";")>> \o Chain("num", ops)
UsesOf(c) == {<<c>>, <<c, "*">>, <<"*", c>>, <<"<", c>>}
DefThenUseInputs ==
    UNION {{DefThenUse(cl[1], cl[2], ops) : ops \in UsesOf(cl[1])} : cl \in DefCombos}

\* def binary<c> <lit1> (a b) a ; def binary<c> <lit2> (a b) a ; 1 <c> 2 * 3
Redefine(c, lit1, lit2, ops) ==
    DefBinary(c, lit1, BodyPlain) \o <<Op(";")>> \o DefBinary(c, lit2, BodyPlain)
        \o <<Op(";")>> \o Chain("num", ops)
RedefineInputs ==
    {Redefine(">", lit1, lit2, ops) : lit1 \in {<<10>>, <<1000>>}, lit2 \in {<<10>>, <<1000>>},
                                      ops \in {<<">", "*">>, <<"*", ">">>}}

\* prototypes of every form with 0..MaxParams parameters
ProtoForms == {"binary", "unary", "plain"}
ProtoOf(form, n) ==
    CASE form = "binary" -> BinaryProto(">", <<>>, n)
      [] form = "unary" -> UnaryProto("!", n)
      [] OTHER -> PlainProto(n)
ArityInput(kw, form, n) ==
    IF kw = "Def" THEN <<Kw("Def")>> \o ProtoOf(form, n) \o BodyPlain
    ELSE <<Kw("Extern")>> \o ProtoOf(form, n)
ArityInputs ==
    {ArityInput(kw, form, n) : kw \in {"Def", "Extern"}, form \in ProtoForms, n \in 0..MaxParams}

\* tokens put where the grammar asks for one specific token
Stray == {Kw("Then"), Kw("Else"), Kw("In"), Num(10), Num(30), Op("="), Op(","), Op("("), Id("x")}

\* `if x 1 2 3 4` is IfInput(Num(10), Num(30)); `def foo x y) x` is ProtoInput(Id("x"))
IfInput(t1, t2) == <<Kw("If"), Id("x"), t1, Num(20), t2, Num(40)>>
ForInput(t1, t2, t3) ==
    <<Kw("For"), Id("i"), t1, Num(10), t2, Num(20), t3, Num(30)>>
VarInput(t1) == <<Kw("Var"), Id("v"), t1, Num(10)>>
ProtoInput(t1) == <<Kw("Def"), Id("foo"), t1, Id("y"), Op(")"), Id("x")>>

RequiredTokenInputs ==
    {IfInput(t1, t2) : t1 \in Stray, t2 \in Stray}
    \cup {ForInput(t1, Op(","), Kw("In")) : t1 \in Stray}
    \cup {ForInput(Op("="), t2, Kw("In")) : t2 \in Stray}
    \cup {ForInput(Op("="), Op(","), t3) : t3 \in Stray}
    \cup {VarInput(t1) : t1 \in Stray}
    \cup {ProtoInput(t1) : t1 \in Stray}

\* def foo(x y) x+y )  followed by what the source text goes on with
FooDef == <<Kw("Def"), Id("foo"), Op("("), Id("x"), Id("y"), Op(")"),
            Id("x"), Op("+"), Id("y")>>
AfterParen == {<<>>, <<Op(";")>>, <<Id("z"), Op(";")>>, <<Op(";"), Id("z")>>,
               <<Num(10)>>, <<Op(")")>>, <<Kw("Then")>>}
UnmatchedParenInputs ==
    {FooDef \o <<Op(")")>> \o rest : rest \in AfterParen}
    \cup {<<Num(10), Op(";"), Op(")")>> \o rest : rest \in AfterParen}

\* binary overloads that are defined, then an item that does not parse:
\* def binary<c> <lit> (a b) a )   and   def ... a ; def ... a )   and
\* def ... a ; def binary<c> <lit> (a b) )
ThenFailCombos == {<<">", <<10>>>>, <<">", <<1000>>>>, <<"+", <<10>>>>, <<"(", <<105>>>>}
DefThenFail(cl) == DefBinary(cl[1], cl[2], BodyPlain) \o <<Op(")")>>
DefsThenFail(c1, c2) ==
    DefBinary(c1[1], c1[2], BodyPlain) \o <<Op(";")>> \o DefThenFail(c2)
DefThenBadDef(c1, c2) ==
    DefBinary(c1[1], c1[2], BodyPlain) \o <<Op(";")>> \o DefBinary(c2[1], c2[2], BodyBad)
ThenFailInputs ==
    {DefThenFail(cl) : cl \in ThenFailCombos}
    \cup {DefsThenFail(c1, c2) : c1, c2 \in ThenFailCombos}
    \cup {DefThenBadDef(c1, c2) : c1, c2 \in ThenFailCombos}

\* operator tokens at the start of a unary term, the first term of an
\* expression or the one after a binary operator:  <ops> 2   and   1 + <ops> 2,
\* with one `)` after the 2 for every `(` among the operators
MaxPrefix == 3
PrefixOps == {"-", "!", "(", ","}
PrefixSeqs == UNION {[1..n -> PrefixOps] : n \in 1..MaxPrefix}
IsOpenParen(o) == o = "("
PrefixFirst(ops) ==
    [i \in 1..Len(ops) |-> Op(ops[i])] \o <<Num(20)>>
    \o [i \in 1..Len(SelectSeq(ops, IsOpenParen)) |-> Op(")")]
PrefixAfterOperator(ops) == <<Num(10), Op("+")>> \o PrefixFirst(ops)
PrefixInputs ==
    {PrefixFirst(ops) : ops \in PrefixSeqs} \cup {PrefixAfterOperator(ops) : ops \in PrefixSeqs}

Inputs ==
    ChainInputs \cup DefInputs \cup DefThenUseInputs \cup RedefineInputs \cup ArityInputs
    \cup RequiredTokenInputs \cup UnmatchedParenInputs \cup PrefixInputs
    \cup ThenFailInputs

(***************************************************************************)
(* Input strings of the parse calls that go through the lexer              *)
(***************************************************************************)
ReservedWords == {<<"d", "e", "f">>, <<"e", "x", "t", "e", "r", "n">>, <<"i", "f">>,
                  <<"t", "h", "e", "n">>, <<"e", "l", "s", "e">>, <<"f", "o", "r">>,
                  <<"i", "n">>}

\* runs that are no reserved word: a reserved word with more characters
\* after it (define, inx, if1), a reserved word cut short, other case
WordSuffixes == {<<"x">>, <<"1">>, <<"i", "n", "e">>}
OtherWords ==
    {w \o suf : w \in ReservedWords, suf \in WordSuffixes}
    \cup {SubSeq(w, 1, Len(w) - 1) : w \in ReservedWords}
    \cup {<<"D", "e", "f">>, <<"I", "n">>, <<"i", "X">>}

\* what stands before and after the run
BeforeWord == {<<>>, <<"\n", " ">>}
AfterWord == {<<>>, <<"(">>}
WordTexts ==
    {pre \o w \o post : pre \in BeforeWord, w \in ReservedWords \cup OtherWords,
                         post \in AfterWord}

\* comments up to the end of the line or of the input
CommentBodies == {<<>>, <<"a">>, <<"1", ".", "2", ".", "3">>, <<" ", "d", "e", "f">>,
                  <<"#", "+">>}
Comments == {<<"#">> \o b : b \in CommentBodies}
BlankPieces == {<<>>, <<" ">>, <<"\n">>, <<"\t", " ">>}
                  \cup {c \o <<"\n">> : c \in Comments}
BlankTexts ==
    {p1 \o p2 : p1 \in BlankPieces, p2 \in BlankPieces \cup Comments}

\* a comment between two tokens, and after the last token
CommentedTexts ==
    {pre \o c \o post : pre \in {<<"a">>, <<"1">>, <<"a", " ">>}, c \in Comments,
                         post \in {<<>>, <<"\n", "b">>, <<"\n", "2">>}}

\* runs of digits and points, alone and after a token
NumericRuns == {<<"5">>, <<".", "5">>, <<"1", ".", "5">>, <<"5", ".">>, <<".">>,
                <<".", ".">>, <<"4", "2">>, <<"1", ".", "2", ".", "3">>,
                <<"1", ".", ".">>, <<".", "5", ".">>, <<"1", ".", "2", ".">>}
NumericTexts ==
    {pre \o r : pre \in {<<>>, <<"1", ";">>, <<"a", " ">>}, r \in NumericRuns}

\* the reserved name of ast.rs as an input, and expressions
AnonymText == <<"_", "_", "a", "n", "o", "n", "_", "e", "x", "p", "r">>
ExpressionTexts ==
    {AnonymText,
     <<"1", "+", "2", "*", "3">>, <<"a", "n", "o", "n">>,
     <<"d", "e", "f", " ", "f", "(", "x", ")", " ", "x", ";", "f", "(", "1", ")">>,
     <<"e", "x", "t", "e", "r", "n", " ", "s", "i", "n", "(", "a", ")", ";">>}

Texts == WordTexts \cup BlankTexts \cup CommentedTexts \cup NumericTexts
            \cup ExpressionTexts

(***************************************************************************)
(* The session: a GlobalParser and the parse call in progress              *)
(***************************************************************************)
VARIABLES
    token_precedence,   \* GlobalParser.token_precedence
    pc,                 \* where the session is: "idle" between calls, "top" in the
                        \* loop of parse_top, "def_body" / "def_reg" inside
                        \* parse_definition, "returned" when parse has returned,
                        \* "lex" while the tokens of an input string are made,
                        \* "aborted" when the process has panicked
    input,              \* the tokens of the input of the call
    lexer,              \* Parser.lexer: the tokens not yet consumed
    result,             \* parse_top: the items pushed so far
    proto,              \* parse_definition: the prototype parsed
    expr,               \* parse_definition: the body parsed
    ret,                \* what parse returned: Ok(KaleoGrammar) or Err
    tp_at_call,         \* history: the table when the call started
    last_def,           \* history: operator |-> precedence of the binary-overload
                        \* definitions completed so far (the latest per operator)
    text,               \* history: the input string of the call
    source,             \* Lexer.input_iter: the characters not yet read
    lexed,              \* the tokens the lexer has produced for the call
    other_precedence,   \* token_precedence of a second GlobalParser
    other_def,          \* history: last_def of the second GlobalParser
    prototypes,         \* CodeGen.prototypes: function name |-> PrototypeAST
    handed              \* history: the items of the call given to visit_top so
                        \* far, each with what visit_top returned

vars == <<token_precedence, pc, input, lexer, result, proto, expr, ret,
          tp_at_call, last_def, text, source, lexed, other_precedence, other_def,
          prototypes, handed>>

NoProto == PrototypeAST("", <<>>, OperatorNone)
NoRet   == [ok |-> FALSE, items |-> <<>>]
KaleoGrammar(items) == [ok |-> TRUE, items |-> items]
ParseError == [ok |-> FALSE, items |-> <<>>]

\* GlobalParser::default()
Init ==
    /\ token_precedence = BIN_OP_PRIORITY
    /\ pc = "idle"
    /\ input = <<>>
    /\ lexer = <<>>
    /\ result = <<>>
    /\ proto = NoProto
    /\ expr = NoAST
    /\ ret = NoRet
    /\ tp_at_call = BIN_OP_PRIORITY
    /\ last_def = [c \in {} |-> 0]
    /\ text = <<>>
    /\ source = <<>>
    /\ lexed = <<>>
    /\ other_precedence = BIN_OP_PRIORITY
    /\ other_def = [c \in {} |-> 0]
    /\ prototypes = [name \in {} |-> NoProto]
    /\ handed = <<>>

\* variant of Fail: the items pushed so far go out with the error
Fail_partial ==
    /\ pc' = "returned"
    /\ ret' = [ok |-> FALSE, items |-> result]
    /\ UNCHANGED <<token_precedence, input, result, proto, expr, tp_at_call, last_def,
                   text, source, lexed, other_precedence, other_def, prototypes, handed>>

\* variant of Fail: the error puts the table back to what it was at the call
Fail_rollback ==
    /\ pc' = "returned"
    /\ ret' = ParseError
    /\ token_precedence' = tp_at_call
    /\ UNCHANGED <<input, result, proto, expr, tp_at_call, last_def,
                   text, source, lexed, other_precedence, other_def, prototypes, handed>>

\* an Err leaves parse_top through `?`
Fail ==
    /\ pc' = "returned"
    /\ ret' = ParseError
    /\ UNCHANGED <<token_precedence, input, result, proto, expr, tp_at_call, last_def,
                   text, source, lexed, other_precedence, other_def, prototypes, handed>>

\* GlobalParser::parse: a fresh lexer and a Parser that borrows the table
parse ==
    /\ pc = "idle"
    /\ \E tokens \in Inputs :
        /\ input' = tokens
        /\ lexer' = tokens
    /\ result' = <<>>
    /\ pc' = "top"
    /\ tp_at_call' = token_precedence
    /\ UNCHANGED <<token_precedence, proto, expr, ret, last_def,
                   text, source, lexed, other_precedence, other_def, prototypes, handed>>

\* GlobalParser::parse on an input string: `Lexer::new(input.chars())`
parse_text ==
    /\ pc = "idle"
    /\ \E t \in Texts :
        /\ text' = t
        /\ source' = t
    /\ lexed' = <<>>
    /\ pc' = "lex"
    /\ tp_at_call' = token_precedence
    /\ UNCHANGED <<token_precedence, input, lexer, result, proto, expr, ret, last_def,
                   other_precedence, other_def, prototypes, handed>>

\* Lexer::next, as the Peekable pulls it: one more token, the end of the
\* tokens, with which parse_top goes to work, or the panic that ends the
\* process.  A literal that makes next panic stands first in its input or
\* after tokens that parse, so the parser does come to pull it.
lexer_next ==
    /\ pc = "lex"
    /\ LET r == next(source) IN
       CASE r.kind = "Some" ->
                /\ lexed' = Append(lexed, r.tok)
                /\ source' = r.rest
                /\ UNCHANGED <<pc, input, lexer, result>>
         [] r.kind = "None" ->
                /\ source' = <<>>
                /\ input' = lexed
                /\ lexer' = lexed
                /\ result' = <<>>
                /\ pc' = "top"
                /\ UNCHANGED lexed
         [] OTHER ->
                /\ pc' = "aborted"
                /\ UNCHANGED <<source, lexed, input, lexer, result>>
    /\ UNCHANGED <<token_precedence, proto, expr, ret, tp_at_call, last_def, text,
                   other_precedence, other_def, prototypes, handed>>

\* variant of parse_definition_proto: the binary overload is registered as
\* soon as its prototype is parsed
parse_definition_proto_eager ==
    /\ pc = "top"
    /\ peek_token(lexer).t = "Def"
    /\ LET c == consume_and_ensure_token(lexer, Kw("Def"))
           p == parse_prototype(c.lexer)
       IN  IF p.ok
           THEN /\ proto' = p.proto
                /\ lexer' = p.lexer
                /\ pc' = "def_body"
                /\ token_precedence' =
                      IF p.proto.operator.kind = "Binary"
                      THEN add_token_precedence(token_precedence, p.proto.operator.op_name,
                                                p.proto.operator.precedence)
                      ELSE token_precedence
                /\ UNCHANGED <<input, result, expr, ret, tp_at_call, last_def,
                   text, source, lexed, other_precedence, other_def, prototypes, handed>>
           ELSE lexer' = p.lexer /\ Fail

\* parse_top on Token::Def: parse_definition up to the prototype
parse_definition_proto ==
    /\ pc = "top"
    /\ peek_token(lexer).t = "Def"
    /\ LET c == consume_and_ensure_token(lexer, Kw("Def"))
           p == parse_prototype(c.lexer)
       IN  IF p.ok
           THEN /\ proto' = p.proto
                /\ lexer' = p.lexer
                /\ pc' = "def_body"
                /\ UNCHANGED <<token_precedence, input, result, expr, ret,
                               tp_at_call, last_def,
                   text, source, lexed, other_precedence, other_def, prototypes, handed>>
           ELSE lexer' = p.lexer /\ Fail

\* parse_definition: the body
parse_definition_body ==
    /\ pc = "def_body"
    /\ LET e == parse_expression(lexer, token_precedence) IN
       IF e.ok
       THEN /\ expr' = e.ast
            /\ lexer' = e.lexer
            /\ pc' = "def_reg"
            /\ UNCHANGED <<token_precedence, input, result, proto, ret,
                           tp_at_call, last_def,
                   text, source, lexed, other_precedence, other_def, prototypes, handed>>
       ELSE lexer' = e.lexer /\ Fail

\* variant of parse_definition_register: one table serves every GlobalParser
parse_definition_register_shared ==
    /\ pc = "def_reg"
    /\ IF proto.operator.kind = "Binary"
       THEN /\ token_precedence' = add_token_precedence(token_precedence,
                                      proto.operator.op_name, proto.operator.precedence)
            /\ other_precedence' = add_token_precedence(other_precedence,
                                      proto.operator.op_name, proto.operator.precedence)
            /\ last_def' = [c \in DOMAIN last_def \cup {proto.operator.op_name} |->
                                IF c = proto.operator.op_name
                                THEN proto.operator.precedence ELSE last_def[c]]
       ELSE UNCHANGED <<token_precedence, other_precedence, last_def>>
    /\ result' = Append(result, TopFunction(FunctionAST(proto, expr)))
    /\ pc' = "top"
    /\ proto' = NoProto
    /\ expr' = NoAST
    /\ UNCHANGED <<input, lexer, ret, tp_at_call, text, source, lexed, other_def, prototypes, handed>>

\* parse_definition: the registration of a binary overload, and the push of
\* the FunctionAST by parse_top
parse_definition_register ==
    /\ pc = "def_reg"
    /\ IF proto.operator.kind = "Binary"
       THEN /\ token_precedence' = add_token_precedence(token_precedence,
                                      proto.operator.op_name, proto.operator.precedence)
            /\ last_def' = [c \in DOMAIN last_def \cup {proto.operator.op_name} |->
                                IF c = proto.operator.op_name
                                THEN proto.operator.precedence ELSE last_def[c]]
       ELSE UNCHANGED <<token_precedence, last_def>>
    /\ result' = Append(result, TopFunction(FunctionAST(proto, expr)))
    /\ pc' = "top"
    /\ proto' = NoProto
    /\ expr' = NoAST
    /\ UNCHANGED <<input, lexer, ret, tp_at_call,
                   text, source, lexed, other_precedence, other_def, prototypes, handed>>

\* variant of parse_top_extern: a binary overload declared by extern is
\* registered like one that is defined
parse_top_extern_registering ==
    /\ pc = "top"
    /\ peek_token(lexer).t = "Extern"
    /\ LET p == parse_extern(lexer) IN
       IF p.ok
       THEN /\ result' = Append(result, TopPrototype(p.proto))
            /\ lexer' = p.lexer
            /\ token_precedence' =
                  IF p.proto.operator.kind = "Binary"
                  THEN add_token_precedence(token_precedence, p.proto.operator.op_name,
                                            p.proto.operator.precedence)
                  ELSE token_precedence
            /\ UNCHANGED <<pc, input, proto, expr, ret, tp_at_call, last_def,
                   text, source, lexed, other_precedence, other_def, prototypes, handed>>
       ELSE lexer' = p.lexer /\ Fail

\* parse_top on Token::Extern
parse_top_extern ==
    /\ pc = "top"
    /\ peek_token(lexer).t = "Extern"
    /\ LET p == parse_extern(lexer) IN
       IF p.ok
       THEN /\ result' = Append(result, TopPrototype(p.proto))
            /\ lexer' = p.lexer
            /\ UNCHANGED <<token_precedence, pc, input, proto, expr, ret,
                           tp_at_call, last_def,
                   text, source, lexed, other_precedence, other_def, prototypes, handed>>
       ELSE lexer' = p.lexer /\ Fail

\* variant of parse_top_separator: the `;` is looked at and left in the lexer
parse_top_separator_peeking ==
    /\ pc = "top"
    /\ peek_token(lexer) = Op(";")
    /\ UNCHANGED vars

\* parse_top on Token::Op(';')
parse_top_separator ==
    /\ pc = "top"
    /\ peek_token(lexer) = Op(";")
    /\ lexer' = advance(lexer)
    /\ UNCHANGED <<token_precedence, pc, input, result, proto, expr, ret,
                   tp_at_call, last_def,
                   text, source, lexed, other_precedence, other_def, prototypes, handed>>

\* variant of parse_top_eof: the loop also returns at a `;`
parse_top_eof_early ==
    /\ pc = "top"
    /\ peek_token(lexer).t = "EoF" \/ peek_token(lexer) = Op(";")
    /\ ret' = KaleoGrammar(result)
    /\ pc' = "returned"
    /\ UNCHANGED <<token_precedence, input, lexer, result, proto, expr,
                   tp_at_call, last_def,
                   text, source, lexed, other_precedence, other_def, prototypes, handed>>

\* parse_top on Token::EoF
parse_top_eof ==
    /\ pc = "top"
    /\ peek_token(lexer).t = "EoF"
    /\ ret' = KaleoGrammar(result)
    /\ pc' = "returned"
    /\ UNCHANGED <<token_precedence, input, lexer, result, proto, expr,
                   tp_at_call, last_def,
                   text, source, lexed, other_precedence, other_def, prototypes, handed>>

\* parse_top on any other token
parse_top_expression ==
    /\ pc = "top"
    /\ peek_token(lexer).t \notin {"Def", "Extern", "EoF"}
    /\ peek_token(lexer) # Op(";")
    /\ LET f == parse_top_level_expression(lexer, token_precedence) IN
       IF f.ok
       THEN /\ result' = Append(result, TopFunction(f.ast))
            /\ lexer' = f.lexer
            /\ UNCHANGED <<token_precedence, pc, input, proto, expr, ret,
                           tp_at_call, last_def,
                   text, source, lexed, other_precedence, other_def, prototypes, handed>>
       ELSE lexer' = f.lexer /\ Fail

\* the caller takes the result; the Parser and its lexer are dropped
parse_return ==
    /\ pc = "returned"
    /\ pc' = "idle"
    /\ input' = <<>>
    /\ lexer' = <<>>
    /\ result' = <<>>
    /\ proto' = NoProto
    /\ expr' = NoAST
    /\ ret' = NoRet
    /\ tp_at_call' = token_precedence
    /\ text' = <<>>
    /\ source' = <<>>
    /\ lexed' = <<>>
    /\ UNCHANGED <<token_precedence, last_def, other_precedence, other_def, prototypes, handed>>

Next ==
    \/ parse
    \/ parse_text
    \/ lexer_next
    \/ parse_definition_proto
    \/ parse_definition_body
    \/ parse_definition_register
    \/ parse_top_extern
    \/ parse_top_separator
    \/ parse_top_eof
    \/ parse_top_expression
    \/ parse_return

Spec == Init /\ [][Next]_vars

(***************************************************************************)
(* Two GlobalParsers.  token_precedence is the table of the instance       *)
(* whose parse is called, other_precedence the table of the other one;     *)
(* between two calls the driver may turn to the other instance, or drop    *)
(* it and construct a new one.                                             *)
(***************************************************************************)
SessionInputs ==
    {DefBinary(">", <<10>>, BodyPlain), DefBinary("+", <<10>>, BodyPlain),
     DefBinary(">", <<>>, BodyBad), ExternBinary(">", <<10>>),
     DefThenUse(">", <<1000>>, <<">", "*">>),
     Chain("num", <<">", "*">>), Chain("num", <<"+", "*">>)}

\* GlobalParser::parse, on the inputs of the two sessions
parse_session ==
    /\ pc = "idle"
    /\ \E tokens \in SessionInputs :
        /\ input' = tokens
        /\ lexer' = tokens
    /\ result' = <<>>
    /\ pc' = "top"
    /\ tp_at_call' = token_precedence
    /\ UNCHANGED <<token_precedence, proto, expr, ret, last_def,
                   text, source, lexed, other_precedence, other_def, prototypes, handed>>

\* the next call goes through the other instance
switch_instance ==
    /\ pc = "idle"
    /\ token_precedence' = other_precedence
    /\ other_precedence' = token_precedence
    /\ last_def' = other_def
    /\ other_def' = last_def
    /\ tp_at_call' = other_precedence
    /\ UNCHANGED <<pc, input, lexer, result, proto, expr, ret, text, source, lexed,
                   prototypes, handed>>

\* GlobalParser::default(): a new instance takes the place of the other one
GlobalParser_default ==
    /\ pc = "idle"
    /\ other_precedence' = BIN_OP_PRIORITY
    /\ other_def' = [c \in {} |-> 0]
    /\ UNCHANGED <<token_precedence, pc, input, lexer, result, proto, expr, ret,
                   tp_at_call, last_def, text, source, lexed,
                   prototypes, handed>>

SessionsNext ==
    \/ parse_session
    \/ parse_definition_proto
    \/ parse_definition_body
    \/ parse_definition_register
    \/ parse_top_extern
    \/ parse_top_separator
    \/ parse_top_eof
    \/ parse_top_expression
    \/ parse_return
    \/ switch_instance
    \/ GlobalParser_default

SessionsSpec == Init /\ [][SessionsNext]_vars

(***************************************************************************)
(* Termination.  Once parse is called the parser runs to its return: every *)
(* step of parse_top that can be taken is taken.  The inputs make each     *)
(* loop of the parser go round several times, or leave in each of its ways.*)
(***************************************************************************)
MaxArgs == 3
CallSeparators == {<<Op(",")>>, <<>>, <<Op(";")>>}
CallEnds == {<<Op(")")>>, <<>>}
RECURSIVE CallArgs(_, _)
CallArgs(n, sep) ==
    IF n = 0 THEN <<>>
    ELSE IF n = 1 THEN <<Num(10)>>
    ELSE CallArgs(n - 1, sep) \o sep \o <<Num(n * 10)>>
\* foo ( 1 <sep> 2 <sep> .. n <end>
CallInput(n, sep, end) == <<Id("foo"), Op("(")>> \o CallArgs(n, sep) \o end
CallInputs ==
    {CallInput(n, sep, end) : n \in 0..MaxArgs, sep \in CallSeparators, end \in CallEnds}

\* items one after the other, with and without `;` between them
ItemRuns ==
    {<<Op(";"), Op(";"), Op(";")>>, <<Num(10), Num(20), Num(30)>>,
     <<Num(10), Op(";"), Num(20), Op(";"), Op(";")>>,
     <<Op(";"), Kw("Extern")>> \o PlainProto(2) \o <<Num(10), Op(";")>>}

\* def foo(a b c) foo(1, 2, 3) + a * b > c ; 1 ; extern foo(a b)
AllLoops ==
    <<Kw("Def")>> \o PlainProto(3) \o CallInput(3, <<Op(",")>>, <<Op(")")>>)
    \o <<Op("+"), Id("a"), Op("*"), Id("b"), Op(">"), Id("c"), Op(";"), Num(10), Op(";"),
         Kw("Extern")>> \o PlainProto(2)

TerminationOps == {"+", "*", ">"}
TerminationInputs ==
    {Chain(kind, ops) : kind \in {"id", "num"},
                        ops \in UNION {[1..n -> TerminationOps] : n \in 1..MaxOps}}
    \cup CallInputs \cup ItemRuns \cup ArityInputs \cup UnmatchedParenInputs
    \cup {ProtoInput(t1) : t1 \in Stray}
    \cup {DefBinary(">", <<10>>, BodyPlain), DefBinary(">", <<1000>>, BodyUsing(">")),
          DefBinary("+", <<10>>, BodyPlain), DefBinary(">", <<10>>, BodyBad), AllLoops}

\* GlobalParser::parse, on these inputs
parse_terminating ==
    /\ pc = "idle"
    /\ \E tokens \in TerminationInputs :
        /\ input' = tokens
        /\ lexer' = tokens
    /\ result' = <<>>
    /\ pc' = "top"
    /\ tp_at_call' = token_precedence
    /\ UNCHANGED <<token_precedence, proto, expr, ret, last_def,
                   text, source, lexed, other_precedence, other_def, prototypes, handed>>

\* the steps of Parser::parse_top
parse_top ==
    \/ parse_definition_proto
    \/ parse_definition_body
    \/ parse_definition_register
    \/ parse_top_extern
    \/ parse_top_separator
    \/ parse_top_eof
    \/ parse_top_expression

TerminationNext ==
    \/ parse_terminating
    \/ parse_definition_proto
    \/ parse_definition_body
    \/ parse_definition_register
    \/ parse_top_extern
    \/ parse_top_separator
    \/ parse_top_eof
    \/ parse_top_expression
    \/ parse_return

TerminationSpec == Init /\ [][TerminationNext]_vars /\ WF_vars(parse_top)

Range(f) == {f[i] : i \in DOMAIN f}

(***************************************************************************)
(* The backend and the driver.  Of CodeGen the model keeps the prototype   *)
(* registry and, of each visit, whether it is Ok or which error it is; the *)
(* LLVM values are left out.  visit_top opens a new, empty module for      *)
(* every function, so a function named in a body is always looked up in    *)
(* `prototypes` (or was, earlier in the same body, with the same outcome). *)
(***************************************************************************)
\* variant of is_top_function: no name is the reserved one
is_top_function_never(f) == FALSE

\* FunctionAST::is_top_function
is_top_function(f) == f.proto.name = ANONYM_FUNCTION

\* HashMap::insert
insert(map, key, value) ==
    [k \in DOMAIN map \cup {key} |-> IF k = key THEN value ELSE map[k]]

\* the operators of visit_binary_expr that are no function call
BuiltinBinary == {"+", "-", "*", "<"}

\* generate_and_get_func: is there a function to call under this name
generate_and_get_func(protos, func_name) == func_name \in DOMAIN protos
\* FunctionValue::count_params of the function declared from the registry
count_params(protos, func_name) == Len(protos[func_name].args)

\* visit_expr: TRUE for Ok, FALSE for an error; named is the key set of
\* named_values_ctx
RECURSIVE visit_expr(_, _, _)
visit_expr(protos, named, e) ==
    CASE e.k = "NumberExpr" -> TRUE
      [] e.k = "VariableExpr" -> e.name \in named
      [] e.k = "UnaryExpr" ->
            /\ visit_expr(protos, named, e.operand)
            /\ generate_and_get_func(protos, gen_unary_func_name(e.opcode))
      [] e.k = "BinaryExpr" ->
            /\ visit_expr(protos, named, e.lhs)
            /\ visit_expr(protos, named, e.rhs)
            /\ \/ e.op \in BuiltinBinary
               \/ generate_and_get_func(protos, gen_binary_func_name(e.op))
      [] e.k = "CallExpr" ->
            /\ generate_and_get_func(protos, e.callee)
            /\ count_params(protos, e.callee) = Len(e.args)
            /\ \A i \in 1..Len(e.args) : visit_expr(protos, named, e.args[i])
      [] e.k = "IfExpr" ->
            /\ visit_expr(protos, named, e.condition)
            /\ visit_expr(protos, named, e.then_block)
            /\ visit_expr(protos, named, e.else_block)
      [] e.k = "ForExpr" ->
            /\ visit_expr(protos, named, e.var_start)
            /\ visit_expr(protos, named \cup {e.var_name}, e.body)
            /\ e.step # <<>> => visit_expr(protos, named \cup {e.var_name}, e.step[1])
            /\ visit_expr(protos, named \cup {e.var_name}, e.var_end)

\* CodeGenResult, with the registry the visit leaves
Visited(protos)     == [ok |-> TRUE, err |-> "", prototypes |-> protos]
Bailed(why, protos) == [ok |-> FALSE, err |-> why, prototypes |-> protos]
AlreadyExists == "Prototype already exists"
BodyError     == "error in the body"

\* visit_prototype: the declaration is added to the module
visit_prototype(protos, p) == Visited(protos)

\* visit_function: the prototype is inserted, then the name is checked,
\* then the body is generated with the parameters as named values
visit_function(protos, f) ==
    LET inserted == insert(protos, f.proto.name, f.proto) IN
    IF f.proto.name \in DOMAIN protos /\ ~is_top_function(f)
    THEN Bailed(AlreadyExists, inserted)
    ELSE IF visit_expr(inserted, Range(f.proto.args), f.body)
         THEN Visited(inserted)
         ELSE Bailed(BodyError, inserted)

\* visit_top
visit_top(protos, item) ==
    IF item.top = "Function"
    THEN visit_function(protos, FunctionAST(item.proto, item.body))
    ELSE visit_prototype(insert(protos, item.proto.name, item.proto), item.proto)

\* the pieces of the driver's inputs
DefFoo(n)  == <<Kw("Def")>> \o PlainProto(n) \o <<Id("a")>>
DefFooBad  == <<Kw("Def")>> \o PlainProto(1) \o <<Id("z")>>
ExternFoo(n) == <<Kw("Extern")>> \o PlainProto(n)
\* def bar() foo(1)
DefBar == <<Kw("Def"), Id("bar"), Op("("), Op(")"), Id("foo"), Op("("), Num(10), Op(")")>>
Semi == <<Op(";")>>

\* the inputs of the driver's calls: single items, several items of which
\* the backend refuses some, and inputs whose parse fails after items that
\* parse.  The bare expressions call nothing.
DriverInputs ==
    {DefFoo(1), DefFoo(2), DefFooBad, ExternFoo(1), ExternFoo(2), DefBar,
     <<Num(10)>>, <<Id("z")>>,
     DefFoo(1) \o Semi \o DefFoo(1) \o Semi \o <<Num(10), Op(";"), Num(20)>>,
     DefFooBad \o Semi \o DefFoo(1),
     DefFoo(1) \o Semi \o DefFoo(2) \o Semi \o DefBar,
     ExternFoo(1) \o Semi \o ExternFoo(2) \o Semi \o DefBar,
     <<Id("z"), Op(";"), Num(10), Op(";")>> \o DefFoo(1),
     DefFoo(1) \o Semi \o <<Num(10), Op(")")>>,
     ExternFoo(2) \o Semi \o DefFoo(2) \o <<Op(")")>>,
     <<Num(10), Op(";"), Op(")")>>}

\* Kaleido::parse_and_execute: the call of GlobalParser::parse
parse_and_execute ==
    /\ pc = "idle"
    /\ \E tokens \in DriverInputs :
        /\ input' = tokens
        /\ lexer' = tokens
    /\ result' = <<>>
    /\ handed' = <<>>
    /\ pc' = "top"
    /\ tp_at_call' = token_precedence
    /\ UNCHANGED <<token_precedence, proto, expr, ret, last_def,
                   text, source, lexed, other_precedence, other_def, prototypes>>

\* parse_and_execute: `Err(err) => return eprintln!("{err}")`
parse_and_execute_err ==
    /\ pc = "returned"
    /\ ~ret.ok
    /\ pc' = "idle"
    /\ UNCHANGED <<token_precedence, input, lexer, result, proto, expr, ret, tp_at_call,
                   last_def, text, source, lexed, other_precedence, other_def,
                   prototypes, handed>>

\* parse_and_execute: one pass of `for ast_part in &ast.0`; an Err of
\* visit_top is printed and the loop goes on
parse_and_execute_visit ==
    /\ pc = "returned"
    /\ ret.ok
    /\ Len(handed) < Len(ret.items)
    /\ LET ast_part == ret.items[Len(handed) + 1]
           visited == visit_top(prototypes, ast_part)
       IN  /\ prototypes' = visited.prototypes
           /\ handed' = Append(handed, [item |-> ast_part, ok |-> visited.ok,
                                        err |-> visited.err])
    /\ UNCHANGED <<token_precedence, pc, input, lexer, result, proto, expr, ret,
                   tp_at_call, last_def, text, source, lexed, other_precedence, other_def>>

\* variant of parse_and_execute_end: the loop is left after an item that
\* the backend has refused
parse_and_execute_end_on_error ==
    /\ pc = "returned"
    /\ ret.ok
    /\ \/ Len(handed) = Len(ret.items)
       \/ handed # <<>> /\ ~handed[Len(handed)].ok
    /\ pc' = "idle"
    /\ UNCHANGED <<token_precedence, input, lexer, result, proto, expr, ret, tp_at_call,
                   last_def, text, source, lexed, other_precedence, other_def,
                   prototypes, handed>>

\* parse_and_execute: the end of the for loop
parse_and_execute_end ==
    /\ pc = "returned"
    /\ ret.ok
    /\ Len(handed) = Len(ret.items)
    /\ pc' = "idle"
    /\ UNCHANGED <<token_precedence, input, lexer, result, proto, expr, ret, tp_at_call,
                   last_def, text, source, lexed, other_precedence, other_def,
                   prototypes, handed>>

\* Kaleido::launch_repl: one parse_and_execute after the other
DriverNext ==
    \/ parse_and_execute
    \/ parse_definition_proto
    \/ parse_definition_body
    \/ parse_definition_register
    \/ parse_top_extern
    \/ parse_top_separator
    \/ parse_top_eof
    \/ parse_top_expression
    \/ parse_and_execute_err
    \/ parse_and_execute_visit
    \/ parse_and_execute_end

DriverSpec == Init /\ [][DriverNext]_vars

(***************************************************************************)
(* Properties                                                              *)
(***************************************************************************)

\* the call has taken its first step in parse_top
Started == pc \notin {"idle", "lex", "aborted"} /\ ~(pc = "top" /\ lexer = input)

\* the item parse_top_level_expression makes of an expression
Anon(e) == TopFunction(FunctionAST(PrototypeAST(ANONYM_FUNCTION, <<>>, OperatorNone), e))

\* In a chain of identifiers a `(` follows an identifier, where it opens the
\* argument list of a call (parse_identifier_expr) and is no infix operator.
InfixChain(kind, ops) == kind = "num" \/ "(" \notin Range(ops)

\* the input read back as a chain: its operand kind and its operators
ChainKind(inp) == IF inp[1].t = "Identifier" THEN "id" ELSE "num"
ChainOps(inp) == [i \in 1..((Len(inp) - 1) \div 2) |-> inp[2 * i].s]
IsChain(inp) ==
    /\ Len(inp) >= 3
    /\ inp[1].t \in {"Identifier", "Number"}
    /\ inp[2].t = "Op"
    /\ inp = Chain(ChainKind(inp), ChainOps(inp))

\* a op1 b op2 c grouped to the right / to the left
GroupRight(kind, op1, op2) ==
    BinaryExpr(op1, OperandAST(kind, 1), BinaryExpr(op2, OperandAST(kind, 2), OperandAST(kind, 3)))
GroupLeft(kind, op1, op2) ==
    BinaryExpr(op2, BinaryExpr(op1, OperandAST(kind, 1), OperandAST(kind, 2)), OperandAST(kind, 3))

\* ((o1 ops[1] o2) ops[2] o3) ... ops[n] o(n+1)
RECURSIVE LeftNested(_, _, _)
LeftNested(kind, ops, n) ==
    IF n = 0 THEN OperandAST(kind, 1)
    ELSE BinaryExpr(ops[n], LeftNested(kind, ops, n - 1), OperandAST(kind, n + 1))

\* the tokens of an expression tree, left to right
RECURSIVE Flatten(_)
Flatten(e) ==
    CASE e.k = "NumberExpr" -> <<Num(e.val)>>
      [] e.k = "VariableExpr" -> <<Id(e.name)>>
      [] e.k = "BinaryExpr" -> Flatten(e.lhs) \o <<Op(e.op)>> \o Flatten(e.rhs)
      [] e.k = "UnaryExpr" -> <<Op(e.opcode)>> \o Flatten(e.operand)
      [] OTHER -> <<>>

\* C1: precedence grouping.  When `a op1 b op2 c` is parsed with both
\* operators registered, the expression is op1(a, op2(b, c)) if op1 has the
\* lower precedence and op2(op1(a, b), c) if op2 has the lower precedence;
\* 1+2*3 is +(1, *(2, 3)).
C1_PrecedenceGrouping ==
    ( /\ IsChain(input)
      /\ Len(input) = 5
      /\ InfixChain(ChainKind(input), ChainOps(input))
      /\ Range(ChainOps(input)) \subseteq DOMAIN token_precedence
      /\ Started )
    =>
    LET kind == ChainKind(input)
        op1 == input[2].s
        op2 == input[4].s
    IN
    /\ token_precedence[op1] < token_precedence[op2]
        => result # <<>> /\ result[1] = Anon(GroupRight(kind, op1, op2))
    /\ token_precedence[op2] < token_precedence[op1]
        => result # <<>> /\ result[1] = Anon(GroupLeft(kind, op1, op2))

C1_Witness ==
    /\ input = Chain("num", <<"+", "*">>)
    /\ pc = "returned"
    /\ ret.ok
    /\ ret.items = <<Anon(GroupRight("num", "+", "*"))>>

\* C2: left associativity.  A chain whose operators all have the same
\* registered precedence is grouped strictly to the left, whatever its length.
C2_LeftAssociativity ==
    ( /\ IsChain(input)
      /\ InfixChain(ChainKind(input), ChainOps(input))
      /\ Range(ChainOps(input)) \subseteq DOMAIN token_precedence
      /\ \A c1, c2 \in Range(ChainOps(input)) : token_precedence[c1] = token_precedence[c2]
      /\ Started )
    =>
    /\ result # <<>>
    /\ result[1] = Anon(LeftNested(ChainKind(input), ChainOps(input), Len(ChainOps(input))))

C2_Witness ==
    /\ input = Chain("id", <<"+", "-", "+">>)
    /\ pc = "returned"
    /\ ret.ok
    /\ ret.items = <<Anon(LeftNested("id", <<"+", "-", "+">>, 3))>>

\* C8: an operator without table entry, met after a complete operand, ends
\* the expression: what was parsed before it is returned as a success and the
\* operator token is the next token of the lexer, at every depth of the climb.
C8_UnregisteredOperatorStops ==
    ( /\ IsChain(input)
      /\ InfixChain(ChainKind(input), ChainOps(input))
      /\ Started )
    =>
    \A j \in DOMAIN ChainOps(input) :
        ( /\ ChainOps(input)[j] \notin DOMAIN token_precedence
          /\ \A i \in 1..(j - 1) : ChainOps(input)[i] \in DOMAIN token_precedence )
        =>
        /\ result # <<>>
        /\ result[1].proto.name = ANONYM_FUNCTION
        /\ Flatten(result[1].body) = SubSeq(input, 1, 2 * j - 1)
        /\ (pc = "top" /\ Len(result) = 1) => lexer = SubSeq(input, 2 * j, Len(input))

\* 1 + 2 * 3 > 4 with `>` unregistered: the climb is one level down at `>`
C8_Witness ==
    /\ input = Chain("num", <<"+", "*", ">">>)
    /\ ">" \notin DOMAIN token_precedence
    /\ pc = "top"
    /\ result = <<Anon(GroupRight("num", "+", "*"))>>
    /\ lexer = <<Op(">"), Num(40)>>

\* a literal the range check of parse_prototype lets through (<<>>: none given)
ValidLit(lit) == lit = <<>> \/ (lit[1] >= 10 /\ lit[1] <= 1000)

\* a chain of one or two operators grouped by the precedences prec[c]
Grouped(kind, ops, prec) ==
    IF Len(ops) = 1 THEN LeftNested(kind, ops, 1)
    ELSE IF prec[ops[1]] < prec[ops[2]] THEN GroupRight(kind, ops[1], ops[2])
    ELSE GroupLeft(kind, ops[1], ops[2])

\* the precedences in force: those of the latest completed binary-overload
\* definitions, over the seeded ones
InForce ==
    [c \in DOMAIN last_def \cup DOMAIN BIN_OP_PRIORITY |->
        IF c \in DOMAIN last_def THEN last_def[c] ELSE BIN_OP_PRIORITY[c]]

\* C3 as stated: in a call that returns Ok, every `def binary<c> <p>` item
\* makes the expression parsed after it group <c> by that p.
C3_EveryLaterExpression ==
    (pc = "returned" /\ ret.ok /\ Len(ret.items) = 3)
    =>
    \A lit1 \in {<<10>>, <<1000>>}, lit2 \in {<<10>>, <<1000>>},
       ops \in {<<">", "*">>, <<"*", ">">>} :
        input = Redefine(">", lit1, lit2, ops)
        =>
        \A i \in 1..2 :
            ret.items[3] = Anon(Grouped("num", ops,
                [c \in {">", "*"} |-> IF c = ">" THEN ret.items[i].proto.operator.precedence
                                      ELSE token_precedence[c]]))

\* C3: once a `def binary<c> <p>` has been parsed, every expression parsed
\* later in the session, in the same call or in a later one, takes <c> in
\* infix position as a binary operator of the precedence of the latest such
\* definition of <c>.
C3_LatestDefinitionRules ==
    /\ ( /\ IsChain(input)
         /\ Len(input) <= 5
         /\ InfixChain(ChainKind(input), ChainOps(input))
         /\ Range(ChainOps(input)) \subseteq DOMAIN InForce
         /\ Range(ChainOps(input)) \cap DOMAIN last_def # {}
         /\ Started )
       =>
       /\ result # <<>>
       /\ result[1] = Anon(Grouped(ChainKind(input), ChainOps(input), InForce))
    /\ (pc = "returned" /\ input # <<>> /\ input[1].t = "Def")
       =>
       /\ \A cl \in DefCombos : \A ops \in UsesOf(cl[1]) :
            (ValidLit(cl[2]) /\ input = DefThenUse(cl[1], cl[2], ops))
            =>
            /\ ret.ok
            /\ Len(ret.items) = 2
            /\ ret.items[2] = Anon(Grouped("num", ops, InForce))
       /\ \A lit1 \in {<<10>>, <<1000>>}, lit2 \in {<<10>>, <<1000>>},
             ops \in {<<">", "*">>, <<"*", ">">>} :
            input = Redefine(">", lit1, lit2, ops)
            =>
            /\ ret.ok
            /\ Len(ret.items) = 3
            /\ ret.items[3] = Anon(Grouped("num", ops, InForce))

\* `>` defined with 100 in an earlier call: 1 > 2 * 3 is (1 > 2) * 3
C3_Witness ==
    /\ input = Chain("num", <<">", "*">>)
    /\ ">" \in DOMAIN last_def
    /\ last_def[">"] = 100
    /\ pc = "returned"
    /\ ret.ok
    /\ ret.items = <<Anon(GroupLeft("num", ">", "*"))>>

\* C4: the table is written by a `def binary<c>` only in the step that
\* follows the parse of its body; the body is parsed with the entry <c> had
\* before the def; a def that fails at its prototype or body writes nothing.
C4_RegistrationAfterBody ==
    /\ [][ token_precedence' # token_precedence
             => ( /\ pc = "def_reg"
                  /\ proto.operator.kind = "Binary"
                  /\ token_precedence' =
                        [c \in DOMAIN token_precedence \cup {proto.operator.op_name} |->
                            IF c = proto.operator.op_name THEN proto.operator.precedence
                            ELSE token_precedence[c]] ) ]_vars
    /\ [][ (pc \in {"top", "def_body"} /\ pc' = "returned" /\ ~ret'.ok)
             => token_precedence' = token_precedence ]_vars
    /\ [](\A cl \in DefCombos :
            (pc = "def_reg" /\ input = DefBinary(cl[1], cl[2], BodyUsing(cl[1])))
            => /\ token_precedence = tp_at_call
               /\ expr = IF cl[1] \in DOMAIN tp_at_call
                         THEN BinaryExpr(cl[1], VariableExpr("a"), VariableExpr("b"))
                         ELSE VariableExpr("a"))

C4_Witness ==
    /\ pc = "def_reg"
    /\ input = DefBinary(">", <<10>>, BodyUsing(">"))
    /\ proto.operator = OperatorBinary(">", 1)
    /\ ">" \notin DOMAIN token_precedence
    /\ expr = VariableExpr("a")
    /\ lexer = <<Op(">"), Id("b")>>

\* C5 as stated: whatever introduces it, a binary-overload prototype that
\* parsed leaves the table holding its precedence.
C5_EveryPrototypeRegisters ==
    ( /\ pc = "returned"
      /\ ret.ok
      /\ Len(ret.items) = 1
      /\ ret.items[1].proto.operator.kind = "Binary" )
    =>
    /\ ret.items[1].proto.operator.op_name \in DOMAIN token_precedence
    /\ token_precedence[ret.items[1].proto.operator.op_name]
          = ret.items[1].proto.operator.precedence

\* C5: a binary-overload prototype introduced by `def` leaves the table
\* holding its precedence once the def is parsed; one introduced by `extern`
\* leaves the table as it was.
C5_OnlyDefinitionsRegister ==
    ( /\ pc = "returned"
      /\ ret.ok
      /\ Len(ret.items) = 1
      /\ ret.items[1].proto.operator.kind = "Binary" )
    =>
    /\ ret.items[1].top = "Function"
        => /\ ret.items[1].proto.operator.op_name \in DOMAIN token_precedence
           /\ token_precedence[ret.items[1].proto.operator.op_name]
                 = ret.items[1].proto.operator.precedence
    /\ ret.items[1].top = "Prototype" => token_precedence = tp_at_call

C5_Witness ==
    /\ pc = "returned"
    /\ ret.ok
    /\ input = ExternBinary(">", <<10>>)
    /\ ret.items[1].proto.operator = OperatorBinary(">", 1)
    /\ ">" \notin DOMAIN token_precedence

\* the input has a token other than the required one at a place where the
\* grammar asks for `then`, `else`, `=`, `,`, `in` or `(`
WrongRequiredToken ==
    \/ /\ Len(input) = 6
       /\ input = IfInput(input[3], input[5])
       /\ input[3] # Kw("Then") \/ input[5] # Kw("Else")
    \/ /\ Len(input) = 8
       /\ input = ForInput(input[3], input[5], input[7])
       /\ input[3] # Op("=") \/ input[5] # Op(",") \/ input[7] # Kw("In")
    \/ /\ Len(input) = 4
       /\ input = VarInput(input[3])
       /\ input[3] # Kw("In")
    \/ /\ Len(input) = 6
       /\ input = ProtoInput(input[3])
       /\ input[3] # Op("(")

\* C6: an input with another token where the grammar requires `then`,
\* `else`, `=`, the first `,`, `in` or the `(` of a prototype makes the parse
\* call return an error.
C6_WrongTokenRejected ==
    (pc = "returned" /\ WrongRequiredToken) => ~ret.ok

\* what follows the `)` goes on to an operand: operator tokens, then an
\* identifier or a number
OperandFollows(rest) ==
    \E i \in DOMAIN rest :
        /\ rest[i].t \in {"Identifier", "Number"}
        /\ \A j \in 1..(i - 1) : rest[j].t = "Op"

\* C7 as stated: a `)` at top level with no open `(` makes parse return an
\* error, whatever follows it.
C7_UnmatchedParenRejected ==
    pc = "returned"
    => \A rest \in AfterParen :
          \/ input = FooDef \o <<Op(")")>> \o rest
          \/ input = <<Num(10), Op(";"), Op(")")>> \o rest
          => ~ret.ok

\* C7: a `)` at top level with no open `(` is taken as a prefix opcode of a
\* new top-level expression: parse returns an error if no operand follows
\* it, and Ok with an item UnaryExpr(`)`, ..) if one does.
C7_ParenIsPrefixOpcode ==
    pc = "returned"
    => \A rest \in AfterParen :
          \/ input = FooDef \o <<Op(")")>> \o rest
          \/ input = <<Num(10), Op(";"), Op(")")>> \o rest
          =>
          /\ ret.ok <=> OperandFollows(rest)
          /\ ret.ok => /\ Len(ret.items) = 2
                       /\ ret.items[2].proto.name = ANONYM_FUNCTION
                       /\ ret.items[2].body.k = "UnaryExpr"
                       /\ ret.items[2].body.opcode = ")"

C7_Witness ==
    /\ pc = "returned"
    /\ input = FooDef \o <<Op(")"), Id("z"), Op(";")>>
    /\ ret.ok
    /\ ret.items[2] = Anon(UnaryExpr(")", VariableExpr("z")))

\* C9: a binary-overload prototype parses only with exactly 2 parameters, a
\* unary-overload prototype only with exactly 1, a plain prototype with any
\* number; every prototype that parsed has the parameters it was given.
C9_OverloadArity ==
    /\ (pc = "returned" /\ input # <<>> /\ input[1].t \in {"Def", "Extern"})
       => \A kw \in {"Def", "Extern"}, form \in ProtoForms, n \in 0..MaxParams :
            input = ArityInput(kw, form, n)
            =>
            /\ ret.ok <=> ( /\ form = "binary" => n = 2
                            /\ form = "unary" => n = 1 )
            /\ ret.ok => /\ Len(ret.items) = 1
                         /\ ret.items[1].proto.args = [i \in 1..n |-> Names[i]]
    /\ \A i \in DOMAIN result :
            /\ result[i].proto.operator.kind = "Binary" => Len(result[i].proto.args) = 2
            /\ result[i].proto.operator.kind = "Unary" => Len(result[i].proto.args) = 1
    /\ pc \in {"def_body", "def_reg"}
       => /\ proto.operator.kind = "Binary" => Len(proto.args) = 2
          /\ proto.operator.kind = "Unary" => Len(proto.args) = 1

\* def binary> (a b c) a
C9_Witness ==
    /\ pc = "returned"
    /\ input = ArityInput("Def", "binary", 3)
    /\ ~ret.ok
    /\ token_precedence = tp_at_call

\* the first item of the input is a binary-overload prototype with a literal
BinaryWithLiteral ==
    /\ Len(input) >= 4
    /\ input[1].t \in {"Def", "Extern"}
    /\ input[2].t = "Binary"
    /\ input[3].t = "Op"
    /\ input[4].t = "Number"

\* C10 as stated: a literal within [1,100] is the precedence recorded in the
\* Binary descriptor.
C10_LiteralIsRecorded ==
    ( /\ pc = "def_body"
      /\ result = <<>>
      /\ BinaryWithLiteral
      /\ input[4].n >= 10
      /\ input[4].n <= 1000 )
    => proto.operator.precedence * 10 = input[4].n

\* p is the integer part of the literal n (n in tenths)
IntegerPart(p, n) == p * 10 <= n /\ n < (p + 1) * 10

\* C10: a literal below 1 or above 100 makes the parse fail and registers
\* nothing; a literal within [1,100] is accepted, and its integer part is the
\* precedence recorded in the Binary descriptor and, for a def, registered.
C10_PrecedenceRange ==
    /\ (Started /\ result = <<>> /\ BinaryWithLiteral
            /\ (input[4].n < 10 \/ input[4].n > 1000))
       => /\ pc = "returned"
          /\ ~ret.ok
          /\ token_precedence = tp_at_call
    /\ (pc = "def_body" /\ result = <<>> /\ BinaryWithLiteral)
       => /\ proto.operator.kind = "Binary"
          /\ proto.operator.op_name = input[3].s
          /\ proto.operator.precedence \in 1..100
          /\ IntegerPart(proto.operator.precedence, input[4].n)
    /\ (pc = "returned" /\ BinaryWithLiteral /\ input[4].n >= 10 /\ input[4].n <= 1000)
       => /\ input = DefBinary(input[3].s, <<input[4].n>>, BodyPlain)
             => /\ ret.ok
                /\ ret.items[1].proto.operator.op_name = input[3].s
                /\ IntegerPart(ret.items[1].proto.operator.precedence, input[4].n)
                /\ input[3].s \in DOMAIN token_precedence
                /\ token_precedence[input[3].s] = ret.items[1].proto.operator.precedence
          /\ input = ExternBinary(input[3].s, <<input[4].n>>)
             => /\ ret.ok
                /\ ret.items[1].proto.operator.op_name = input[3].s
                /\ IntegerPart(ret.items[1].proto.operator.precedence, input[4].n)

\* def binary> 10.5 (a b) a: the descriptor holds 10
C10_Witness ==
    /\ pc = "def_body"
    /\ input = DefBinary(">", <<105>>, BodyPlain)
    /\ proto.operator = OperatorBinary(">", 10)


\* C11: when an item of the input fails to parse, parse returns an error
\* and nothing else: the items parse_top had pushed before the failure are
\* not in what the caller gets.
C11_NoPartialResult ==
    (pc = "returned" /\ ~ret.ok) => ret.items = <<>>

\* def foo(x y) x+y ) : foo is pushed, then the second item fails
C11_Witness ==
    /\ pc = "returned"
    /\ ~ret.ok
    /\ input = FooDef \o <<Op(")")>>
    /\ Len(result) = 1
    /\ result[1].proto.name = "foo"


\* after is before with one item pushed at its end
PushedOne(before, after) ==
    /\ Len(after) = Len(before) + 1
    /\ SubSeq(after, 1, Len(before)) = before

\* C13: the loop of parse_top.  A `;` met between items is consumed and
\* pushes nothing; every other token met there starts one item, pushed at
\* the end of the sequence: a Prototype for extern, a named Function for def
\* (once its body is parsed), the anonymous Function for an expression;
\* success is returned only with every token consumed, and carries the
\* items pushed, in that order.
C13_TopLevelLoop ==
    /\ [][ (pc = "top" /\ peek_token(lexer) = Op(";"))
           => (result' = result /\ lexer' = Tail(lexer) /\ pc' = "top") ]_vars
    /\ [][ (pc = "top" /\ pc' = "top" /\ peek_token(lexer) # Op(";"))
           => /\ PushedOne(result, result')
              /\ Len(lexer') < Len(lexer)
              /\ LET it == result'[Len(result')] IN
                 IF peek_token(lexer).t = "Extern"
                 THEN it.top = "Prototype" /\ it.proto.name # ANONYM_FUNCTION
                 ELSE it.top = "Function" /\ it.proto.name = ANONYM_FUNCTION ]_vars
    /\ [][ (pc = "top" /\ pc' = "def_body") \/ pc = "def_body"
           => result' = result ]_vars
    /\ [][ pc = "def_reg"
           => /\ PushedOne(result, result')
              /\ result'[Len(result')].top = "Function"
              /\ result'[Len(result')].proto.name # ANONYM_FUNCTION ]_vars
    /\ []( (pc = "returned" /\ ret.ok)
           => /\ lexer = <<>>
              /\ ret.items = result
              /\ \A lit1 \in {<<10>>, <<1000>>}, lit2 \in {<<10>>, <<1000>>},
                    ops \in {<<">", "*">>, <<"*", ">">>} :
                    input = Redefine(">", lit1, lit2, ops)
                    => /\ Len(ret.items) = 3
                       /\ ret.items[1].proto.operator = OperatorBinary(">", lit1[1] \div 10)
                       /\ ret.items[2].proto.operator = OperatorBinary(">", lit2[1] \div 10)
                       /\ ret.items[3].proto.name = ANONYM_FUNCTION
                       /\ Flatten(ret.items[3].body) = Chain("num", ops) )

\* def binary> 1 (a b) a ; def binary> 100 (a b) a ; 1 > 2 * 3
C13_Witness ==
    /\ pc = "returned"
    /\ ret.ok
    /\ input = Redefine(">", <<10>>, <<1000>>, <<">", "*">>)
    /\ Len(ret.items) = 3
    /\ lexer = <<>>


\* C14: at every point of a session, after successful and failing calls
\* alike, every precedence in the operator table lies in 1..100, above the
\* -1 that get_token_precedence gives for a symbol not in the table.
C14_SentinelBelowPrecedences ==
    \A c \in DOMAIN token_precedence :
        /\ token_precedence[c] \in 1..100
        /\ token_precedence[c] > -1
        /\ get_token_precedence(token_precedence, c) = token_precedence[c]

\* `>` was registered with the lowest precedence, and a later call failed
C14_Witness ==
    /\ pc = "returned"
    /\ ~ret.ok
    /\ ">" \in DOMAIN token_precedence
    /\ token_precedence[">"] = 1
    /\ "(" \in DOMAIN token_precedence


\* symbols and precedences on which the table operations are tried
TableSymbols == {"=", "<", "+", "*", ">", "(", "!"}
TablePrecedences == {1, 10, 30, 100}

\* C15: on every table of the session, after set(s, p) get(s) is p, whatever
\* s held before, and get(t) is what it was for every other t; along the
\* session no entry is ever removed, and the value get gives for a symbol
\* changes only by a set on that symbol, to the value set.
C15_TableGetSet ==
    /\ [](\A s \in TableSymbols, p \in TablePrecedences :
            LET after == add_token_precedence(token_precedence, s, p) IN
            /\ get_token_precedence(after, s) = p
            /\ \A t \in TableSymbols \ {s} :
                 get_token_precedence(after, t) = get_token_precedence(token_precedence, t))
    /\ [][ /\ DOMAIN token_precedence \subseteq DOMAIN token_precedence'
           /\ \A t \in DOMAIN token_precedence' :
                get_token_precedence(token_precedence', t)
                    # get_token_precedence(token_precedence, t)
                => /\ pc = "def_reg"
                   /\ proto.operator = OperatorBinary(t, token_precedence'[t]) ]_vars

\* def binary+ 1 (a b) a has overwritten the seeded 20 of `+`
C15_Witness ==
    /\ pc = "top"
    /\ tp_at_call["+"] = 20
    /\ token_precedence["+"] = 1
    /\ token_precedence["*"] = 40
    /\ result # <<>>


\* the call in progress got its tokens from the lexer
FromText == input = lexed /\ pc \notin {"idle", "lex", "aborted"}

\* tokens that Flatten gives back: no call, no parenthesis, no keyword
Flat(toks) ==
    \A i \in DOMAIN toks :
        \/ toks[i].t \in {"Number", "Identifier"}
        \/ toks[i].t = "Op" /\ toks[i].s \notin {"(", ","}

\* C12: an item of the input that starts with neither def, extern nor `;`
\* is pushed as a Function whose prototype is named __anon_expr, has no
\* parameter and no operator, and whose body is the expression read; items
\* of def and extern never carry that name; and the lexer makes no
\* Identifier of that name: the text __anon_expr gives _ _ anon _ expr.
C12_AnonymousFunction ==
    /\ [][ (pc = "top" /\ pc' = "top" /\ peek_token(lexer) # Op(";")
              /\ peek_token(lexer).t \notin {"Def", "Extern"})
           => LET it == result'[Len(result')]
                  read == SubSeq(lexer, 1, Len(lexer) - Len(lexer'))
              IN  /\ result' = Append(result, it)
                  /\ it.top = "Function"
                  /\ it.proto = PrototypeAST("__anon_expr", <<>>, OperatorNone)
                  /\ it.body.k # "None"
                  /\ Flat(read) => Flatten(it.body) = read ]_vars
    /\ [][ (pc = "def_reg" \/ (pc = "top" /\ peek_token(lexer).t = "Extern"))
           => \A i \in DOMAIN result' : i > Len(result)
                 => result'[i].proto.name # "__anon_expr" ]_vars
    /\ [](\A i \in DOMAIN lexed : lexed[i] # Id("__anon_expr"))
    /\ []((FromText /\ text = AnonymText)
            => input = <<Op("_"), Op("_"), Id("anon"), Op("_"), Id("expr")>>)

\* the text __anon_expr is read as the two expressions __anon and _expr
C12_Witness ==
    /\ pc = "returned"
    /\ FromText
    /\ text = AnonymText
    /\ ret.ok
    /\ ret.items = <<Anon(UnaryExpr("_", UnaryExpr("_", VariableExpr("anon")))),
                     Anon(UnaryExpr("_", VariableExpr("expr")))>>


\* C17 as stated: a malformed numeric literal comes back as an error of the
\* parse call; the process is never aborted.
C17_MalformedNumberIsError ==
    pc # "aborted"

\* C18 as stated: a run of digits and points is one Number token, whether it
\* starts with a digit or with a point.
C18_PointStartsNumber ==
    (FromText /\ text \in {<<"5">>, <<".", "5">>, <<"1", ".", "5">>, <<"5", ".">>})
    => /\ Len(input) = 1
       /\ input[1].t = "Number"

\* the tokens of the pieces put around a comment
TokensAround(piece) ==
    CASE piece = <<"a">> -> <<Id("a")>>
      [] piece = <<"a", " ">> -> <<Id("a")>>
      [] piece = <<"1">> -> <<Num(10)>>
      [] piece = <<"\n", "b">> -> <<Id("b")>>
      [] piece = <<"\n", "2">> -> <<Num(20)>>
      [] OTHER -> <<>>

\* C19: an input of blanks and `#` comments gives no token, the first call
\* of next returning None; the text of a comment, up to the end of its line
\* or of the input, adds nothing to the tokens before and after it.
C19_BlanksAndComments ==
    /\ [][ (pc = "lex" /\ source \in BlankTexts /\ lexed = <<>>)
           => (pc' = "top" /\ input' = <<>>) ]_vars
    /\ [](text \in BlankTexts \cup CommentedTexts => pc # "aborted")
    /\ []((FromText /\ text \in BlankTexts) => input = <<>>)
    /\ []((FromText /\ text \in CommentedTexts)
            => \A pre \in {<<"a">>, <<"1">>, <<"a", " ">>}, c \in Comments,
                  post \in {<<>>, <<"\n", "b">>, <<"\n", "2">>} :
                  text = pre \o c \o post
                  => input = TokensAround(pre) \o TokensAround(post))

\* two comments, the first with a malformed literal, the second with a
\* reserved word and no end of line
C19_Witness ==
    /\ pc = "returned"
    /\ text = <<"#", "1", ".", "2", ".", "3", "\n", "#", " ", "d", "e", "f">>
    /\ input = <<>>
    /\ ret = KaleoGrammar(<<>>)

\* the keyword token of a reserved word
KeywordOf(w) ==
    CASE w = <<"d", "e", "f">> -> Kw("Def")
      [] w = <<"e", "x", "t", "e", "r", "n">> -> Kw("Extern")
      [] w = <<"i", "f">> -> Kw("If")
      [] w = <<"t", "h", "e", "n">> -> Kw("Then")
      [] w = <<"e", "l", "s", "e">> -> Kw("Else")
      [] w = <<"f", "o", "r">> -> Kw("For")
      [] OTHER -> Kw("In")

\* the string of a sequence of characters
RECURSIVE Spelling(_)
Spelling(w) == IF w = <<>> THEN "" ELSE Head(w) \o Spelling(Tail(w))

\* the run of a text of WordTexts, without what stands before and after it
WordOf(t) ==
    SubSeq(t, IF t[1] = "\n" THEN 3 ELSE 1, IF t[Len(t)] = "(" THEN Len(t) - 1 ELSE Len(t))

\* C20: a run of letters and digits that starts with a letter is a keyword
\* token exactly when the whole run is one of def, extern, if, then, else,
\* for, in, each word giving its own token; any other run, one that goes on
\* after a reserved word included, is one Identifier with the whole run.
C20_KeywordClassification ==
    (FromText /\ text \in WordTexts)
    => LET w == WordOf(text)
           after == IF text[Len(text)] = "(" THEN <<Op("(")>> ELSE <<>>
       IN  /\ w \in ReservedWords => input = <<KeywordOf(w)>> \o after
           /\ w \notin ReservedWords => input = <<Id(Spelling(w))>> \o after
           /\ input[1].t \in {"Def", "Extern", "If", "Then", "Else", "For", "In"}
                <=> w \in ReservedWords

\* define
C20_Witness ==
    /\ pc = "returned"
    /\ FromText
    /\ text = <<"d", "e", "f", "i", "n", "e">>
    /\ input = <<Id("define")>>
    /\ ret.ok


\* the seeds of a GlobalParser, as parser.rs lists them
DefaultTable == ("=" :> 2 @@ "<" :> 10 @@ "+" :> 20 @@ "-" :> 20 @@ "*" :> 40)

\* every lookup in tp gives the precedence of the latest definition of defs,
\* else the seed, else -1
LookupsFrom(tp, defs) ==
    \A c \in TableSymbols \cup {"-"} :
        get_token_precedence(tp, c) =
            IF c \in DOMAIN defs THEN defs[c]
            ELSE IF c \in DOMAIN DefaultTable THEN DefaultTable[c]
            ELSE -1

\* C16: with two GlobalParsers, every lookup through an instance gives what
\* the seeds and the definitions parsed through that very instance make it;
\* no step of a call through one instance changes the table of the other; a
\* newly constructed instance holds the seeds; and `1 > 2 * 3` is parsed as
\* one expression exactly by an instance through which `>` was defined.
C16_SessionIsolation ==
    /\ [](LookupsFrom(token_precedence, last_def) /\ LookupsFrom(other_precedence, other_def))
    /\ [][ pc # "idle" => other_precedence' = other_precedence ]_vars
    /\ [][ GlobalParser_default
           => (other_precedence' = DefaultTable /\ token_precedence' = token_precedence) ]_vars
    /\ []((pc = "returned" /\ input = Chain("num", <<">", "*">>))
            => /\ ret.ok
               /\ Len(ret.items) = 1 <=> ">" \in DOMAIN last_def
               /\ Len(ret.items) = 2 <=> ">" \notin DOMAIN last_def)

\* `>` is defined through the other instance, and this one still reads
\* 1 > 2 * 3 as the two expressions 1 and > 2 * 3
C16_Witness ==
    /\ pc = "returned"
    /\ input = Chain("num", <<">", "*">>)
    /\ ">" \in DOMAIN other_precedence
    /\ ">" \notin DOMAIN token_precedence
    /\ other_precedence["+"] = 1
    /\ Len(ret.items) = 2


\* the unary term that the operators ops make in front of the number 2: each
\* operator wraps what follows it, `(` opens a parenthesis that adds no
\* node, `,` starts no term
RECURSIVE PrefixNest(_)
PrefixNest(ops) ==
    IF ops = <<>> THEN [ok |-> TRUE, ast |-> NumberExpr(20)]
    ELSE IF Head(ops) = "," THEN [ok |-> FALSE, ast |-> NoAST]
    ELSE LET inner == PrefixNest(Tail(ops)) IN
         IF ~inner.ok \/ Head(ops) = "(" THEN inner
         ELSE [ok |-> TRUE, ast |-> UnaryExpr(Head(ops), inner.ast)]

\* the operators at the head of the input, from its token `from` on
IsPrefixToken(tok) == tok.t = "Op" /\ tok.s # ")"
PrefixOf(inp, from) ==
    LET toks == SelectSeq(SubSeq(inp, from, Len(inp)), IsPrefixToken)
    IN  [i \in 1..Len(toks) |-> toks[i].s]

\* C23: at the start of a unary term an operator token other than `(` and
\* `,` is taken as a prefix opcode around the unary term that follows it, so
\* n such operators make n nested UnaryExpr, the first outermost; `(` and
\* `,` go to parse_primary and are never an opcode.
C23_UnaryPrefix ==
    (pc = "returned" /\ input # <<>>)
    => /\ (input[1].t = "Op" /\ input = PrefixFirst(PrefixOf(input, 1)))
          => LET e == PrefixNest(PrefixOf(input, 1)) IN
             /\ ret.ok <=> e.ok
             /\ ret.ok => ret.items = <<Anon(e.ast)>>
       /\ (Len(input) > 3 /\ input = PrefixAfterOperator(PrefixOf(input, 3)))
          => LET e == PrefixNest(PrefixOf(input, 3)) IN
             /\ ret.ok <=> e.ok
             /\ ret.ok => ret.items = <<Anon(BinaryExpr("+", NumberExpr(10), e.ast))>>

\* 1 + - ! - 2
C23_Witness ==
    /\ pc = "returned"
    /\ input = PrefixAfterOperator(<<"-", "!", "-">>)
    /\ ret.ok
    /\ ret.items = <<Anon(BinaryExpr("+", NumberExpr(10),
                        UnaryExpr("-", UnaryExpr("!", UnaryExpr("-", NumberExpr(20))))))>>


\* the table tp after the binary-overload definitions among items, first to last
RECURSIVE Registered(_, _)
Registered(tp, items) ==
    IF items = <<>> THEN tp
    ELSE LET it == Head(items)
             op == it.proto.operator
             tp2 == IF it.top = "Function" /\ op.kind = "Binary"
                    THEN [c \in DOMAIN tp \cup {op.op_name} |->
                            IF c = op.op_name THEN op.precedence ELSE tp[c]]
                    ELSE tp
         IN  Registered(tp2, Tail(items))

\* C27: when parse returns an error the table is not rolled back: it is the
\* table at the start of the call updated, in order, by the binary-overload
\* definitions that parse_top had completed (and pushed) before the failure,
\* none of which is returned.
C27_NoRollback ==
    (pc = "returned" /\ ~ret.ok)
    => /\ token_precedence = Registered(tp_at_call, result)
       /\ ret.items = <<>>
       /\ \A c1, c2 \in ThenFailCombos :
            input \in {DefsThenFail(c1, c2), DefThenBadDef(c1, c2)}
            => /\ (input = DefThenBadDef(c1, c2) \/ c1[1] # c2[1])
                  => token_precedence[c1[1]] = as_isize(c1[2][1])
               /\ input = DefsThenFail(c1, c2) => token_precedence[c2[1]] = as_isize(c2[2][1])
               /\ (input = DefThenBadDef(c1, c2) /\ c1[1] # c2[1])
                  => /\ c2[1] \in DOMAIN tp_at_call => token_precedence[c2[1]] = tp_at_call[c2[1]]
                     /\ c2[1] \notin DOMAIN tp_at_call => c2[1] \notin DOMAIN token_precedence

\* def binary> 10 (a b) a ; def binary+ 10 (a b) a )  on the default table:
\* both registrations stay, `+` changed from 20 to 10
C27_Witness ==
    /\ pc = "returned"
    /\ ~ret.ok
    /\ input = DefsThenFail(<<">", <<10>>>>, <<"+", <<10>>>>)
    /\ tp_at_call = BIN_OP_PRIORITY
    /\ token_precedence # tp_at_call
    /\ token_precedence[">"] = 1
    /\ token_precedence["+"] = 1
    /\ Len(result) = 2


\* the lexers a loop inside the parser can be entered with: what is left of
\* the tokens from some point on
Suffixes(lx) == {SubSeq(lx, i, Len(lx)) : i \in 1..(Len(lx) + 1)}
\* the expr_precedence parse_bin_op_rhs is entered with: 0 from
\* parse_expression, tok_prec + 1 from itself
EntryPrecedences(tp) == {0} \cup {tp[c] + 1 : c \in DOMAIN tp}
\* the pass p, started with the lexer lx, returns or has consumed a token
Advances(lx, p) == p.done \/ Len(p.r.lexer) < Len(lx)

\* every pass of the binary-operator loop, of the argument loop and of the
\* parameter loop that the rest of the call can make
InnerLoopsAdvance ==
    pc \in {"top", "def_body"}
    => \A lx \in Suffixes(lexer) :
        /\ \A expr_precedence \in EntryPrecedences(token_precedence) :
             Advances(lx, bin_op_pass(lx, token_precedence, expr_precedence, NumberExpr(0)))
        /\ Advances(lx, call_args_pass(lx, token_precedence, <<>>))
        /\ Advances(lx, prototype_args_pass(lx, "", OperatorNone, <<>>))

\* a pass of the top-level loop: one step, or the three steps of a definition
TopLoopAdvances ==
    /\ pc \in {"top", "def_body"} => (pc' = "returned" \/ Len(lexer') < Len(lexer))
    /\ pc = "def_reg" => (pc' = "top" /\ lexer' = lexer)

\* C25: parse terminates, with success or an error, on every token sequence
\* and every table: every pass of the top-level loop, of the binary-operator
\* loop, of the argument loop and of the parameter loop returns or consumes
\* at least one token, and a call that has started comes to its return.
C25_ParserTerminates ==
    /\ []InnerLoopsAdvance
    /\ [][TopLoopAdvances]_vars
    /\ (pc \in {"top", "def_body", "def_reg"}) ~> (pc = "returned")

\* def foo(a b c) foo(1, 2, 3) + a * b > c ; 1 ; extern foo(a b)  has
\* returned its three items, and each inner loop has a pass that goes round
C25_Witness ==
    /\ pc = "returned"
    /\ ret.ok
    /\ input = AllLoops
    /\ Len(ret.items) = 3
    /\ \E lx \in Suffixes(input) :
         ~bin_op_pass(lx, token_precedence, 0, NumberExpr(0)).done
    /\ \E lx \in Suffixes(input) : ~call_args_pass(lx, token_precedence, <<>>).done
    /\ \E lx \in Suffixes(input) : ~prototype_args_pass(lx, "", OperatorNone, <<>>).done


\* the step is a pass of the driver's loop: visit_top on the next item
VisitStep == pc = "returned" /\ Len(handed') = Len(handed) + 1
\* the item of that pass, and what visit_top returned for it
VisitedItem == handed'[Len(handed')].item
VisitResult == handed'[Len(handed')]
UserFunction(item) == item.top = "Function" /\ item.proto.name # ANONYM_FUNCTION
AnonymFunction(item) == item.top = "Function" /\ item.proto.name = ANONYM_FUNCTION

\* C21: a definition whose user-chosen name is in the registry already is
\* refused with the duplicate error; a definition under the reserved
\* anonymous name never is, however many came before it.
C21_DuplicateDefinition ==
    [][VisitStep =>
        /\ (UserFunction(VisitedItem) /\ VisitedItem.proto.name \in DOMAIN prototypes)
           => (~VisitResult.ok /\ VisitResult.err = AlreadyExists)
        /\ AnonymFunction(VisitedItem) => VisitResult.err # AlreadyExists]_vars

\* def foo(a) a ; def foo(a) a ; 1 ; 2 : the second foo is refused, both
\* bare expressions are taken
C21_Witness ==
    /\ pc = "returned"
    /\ Len(handed) = 4
    /\ handed[1].ok /\ handed[1].item.proto.name = "foo"
    /\ ~handed[2].ok /\ handed[2].err = AlreadyExists /\ handed[2].item.proto.name = "foo"
    /\ handed[3].ok /\ handed[3].item.proto.name = ANONYM_FUNCTION
    /\ handed[4].ok /\ handed[4].item.proto.name = ANONYM_FUNCTION


\* C22: an external declaration whose name is in the registry already gets
\* the duplicate error, and the prototype registered under the name stays.
C22_DuplicateDeclaration ==
    [][(VisitStep /\ VisitedItem.top = "Prototype"
                  /\ VisitedItem.proto.name \in DOMAIN prototypes)
        => /\ ~VisitResult.ok
           /\ prototypes'[VisitedItem.proto.name] = prototypes[VisitedItem.proto.name]]_vars


\* what the backend has been given is the first items of what parse returned
HandedInOrder ==
    (pc = "returned" /\ ret.ok)
    => /\ Len(handed) <= Len(ret.items)
       /\ \A i \in 1..Len(handed) : handed[i].item = ret.items[i]

\* C24: after a parse that failed the backend gets nothing of the call and
\* the next call starts on its own tokens alone; after a parse that
\* succeeded the backend gets the items one by one in their order, all of
\* them, also those that come after an item it has refused.
C24_DriverPipeline ==
    /\ []((pc = "returned" /\ ~ret.ok) => handed = <<>>)
    /\ []HandedInOrder
    /\ [][/\ (pc = "returned" /\ ~ret.ok)
             => (pc' = "idle" /\ handed' = <<>> /\ prototypes' = prototypes)
          /\ (pc = "returned" /\ ret.ok /\ pc' = "idle") => Len(handed) = Len(ret.items)
          /\ (pc = "returned" /\ ret.ok /\ pc' = "returned")
             => (VisitStep /\ VisitedItem = ret.items[Len(handed) + 1])
          /\ pc = "idle" => (lexer' = input' /\ result' = <<>> /\ handed' = <<>>)]_vars

\* z ; 1 ; def foo(a) a  has been handed over whole, in its order, although
\* the backend refused z, and the call has ended
C24_Witness ==
    /\ pc = "idle"
    /\ ret.ok
    /\ input = <<Id("z"), Op(";"), Num(10), Op(";")>> \o DefFoo(1)
    /\ Len(handed) = 3
    /\ ~handed[1].ok
    /\ handed[2].ok
    /\ handed[3].ok /\ handed[3].item.proto.name = "foo"
    /\ DOMAIN prototypes = {ANONYM_FUNCTION, "foo"}


\* C26: a definition that visit_function refuses, for its name or for its
\* body, leaves the registry as it was.
C26_FailedDefinitionKeepsRegistry ==
    [][(VisitStep /\ VisitedItem.top = "Function" /\ ~VisitResult.ok)
        => prototypes' = prototypes]_vars

====
